---------------------------- MODULE Spec2Model ----------------------------
(***************************************************************************)
(* RedditThreadArchiver: the comment-tree retrieval and expansion engine   *)
(* of reddit_client.py / public_reddit_client.py (rate-limited request     *)
(* gate, tree walker, expansion loop) and its caller in archiver.py.       *)
(*                                                                         *)
(* Listings are sequences of "things" as the Reddit API returns them: a    *)
(* thing is a record [kind, id, replies, children].  kind "t1" is a        *)
(* comment (id, nested reply listing), kind "more" is a truncation marker  *)
(* (list of child ids).  NoId stands for a missing or empty id, which      *)
(* Python treats as falsy.                                                 *)
(***************************************************************************)
EXTENDS Integers, Sequences, FiniteSets, TLC

\* --------------------------------------------------------------- bounds
MaxWeight == 3      \* nodes plus marker ids in one listing given to the walker
ServerWeight == 2   \* nodes plus marker ids in one response of the server
MaxPending == 3     \* longest pending-marker queue explored
\* The source batches 100 ids and caps the public loop at 20 batches; the
\* model keeps both policies and scales the two numbers down.
BatchSize == 1      \* more_ids[:100]
MaxExpansions == 2  \* max_expansions = 20
Horizon == 3        \* elapsed times are measured up to Horizon and saturate there
MaxCalls == 4       \* outbound calls of one client instance explored
MaxRetryAfter == 2  \* largest Retry-After header explored
MaxComments == 3    \* comments of a submission given to the correlator
MaxTime == 2        \* creation timestamps are 1..MaxTime
MaxClock == 4       \* the clock of the concurrent callers runs 0..MaxClock
MaxThread == 2      \* comments of a submission with unusual authors and parents

DefaultRetryAfter == 60   \* response.headers.get("Retry-After", 60)

NoId == 0
Ids == {1, 2}
IdOrNone == Ids \cup {NoId}

\* ------------------------------------------------------- listing universe
CommentThing(i, r) == [kind |-> "t1", id |-> i, replies |-> r, children |-> <<>>]
MoreThing(c) == [kind |-> "more", id |-> NoId, replies |-> <<>>, children |-> c]

SeqsUpTo(S, n) == UNION {[1..k -> S] : k \in 0..n}

Min(a, b) == IF a <= b THEN a ELSE b

\* ThingsOf(S, w): the things of weight at most w with ids in S;
\* ListingsOf(S, w): the listings of total weight at most w.  A comment
\* weighs 1 plus its replies, a "more" node weighs the number of its child
\* ids (at least 1).
RECURSIVE ThingsOf(_, _), ListingsOf(_, _)
ThingsOf(S, w) ==
    IF w = 0 THEN {}
    ELSE {CommentThing(i, r) : i \in S, r \in ListingsOf(S, w - 1)}
         \cup {MoreThing(c) : c \in SeqsUpTo(S, w)}

ListingsOf(S, w) ==
    IF w = 0 THEN {<<>>}
    ELSE {<<>>} \cup
         UNION {{<<t>> \o rest : t \in ThingsOf(S, k), rest \in ListingsOf(S, w - k)} : k \in 1..w}

Listings == ListingsOf(IdOrNone, MaxWeight)
SeedListings == ListingsOf(Ids, 1)
ServerListings == ListingsOf(Ids, ServerWeight)

\* Number of comment nodes of a listing, at every depth.
RECURSIVE CountComments(_)
CountComments(l) ==
    IF l = <<>> THEN 0
    ELSE (IF Head(l).kind = "t1" THEN 1 + CountComments(Head(l).replies) ELSE 0)
         + CountComments(Tail(l))

\* The ids of the comment nodes of a listing, in visiting order.
RECURSIVE CommentIds(_)
CommentIds(l) ==
    IF l = <<>> THEN <<>>
    ELSE (IF Head(l).kind = "t1" THEN <<Head(l).id>> \o CommentIds(Head(l).replies) ELSE <<>>)
         \o CommentIds(Tail(l))

RECURSIVE HasMore(_)
HasMore(l) ==
    IF l = <<>> THEN FALSE
    ELSE \/ Head(l).kind = "more"
         \/ (Head(l).kind = "t1" /\ HasMore(Head(l).replies))
         \/ HasMore(Tail(l))

Range(s) == {s[k] : k \in 1..Len(s)}
Distinct(s) == \A a, b \in 1..Len(s) : a # b => s[a] # s[b]
IdsOf(cs) == [k \in 1..Len(cs) |-> cs[k].id]

\* ------------------------------------------------------------ tree walker
\* The three accumulators of one fetch, threaded through the walk.
EmptyAcc == [comments |-> <<>>, more_ids |-> <<>>, fetched_ids |-> {}]

\* Comment(id=comment_id, ...): only the identity matters to the fetcher.
Comment(thing) == [id |-> thing.id]

\* AppendUnfetched without the fetched_ids test on the child ids.
RECURSIVE AppendUnfetchedAll(_, _)
AppendUnfetchedAll(children_ids, acc) ==
    IF children_ids = <<>> THEN acc
    ELSE LET child_id == Head(children_ids)
             next == IF child_id # NoId
                     THEN [acc EXCEPT !.more_ids = Append(@, child_id)]
                     ELSE acc
         IN AppendUnfetchedAll(Tail(children_ids), next)

RECURSIVE AppendUnfetched(_, _)
AppendUnfetched(children_ids, acc) ==
    IF children_ids = <<>> THEN acc
    ELSE LET child_id == Head(children_ids)
             next == IF child_id # NoId /\ child_id \notin acc.fetched_ids
                     THEN [acc EXCEPT !.more_ids = Append(@, child_id)]
                     ELSE acc
         IN AppendUnfetched(Tail(children_ids), next)

RECURSIVE ProcessCommentListing(_, _), ProcessThing(_, _)

\* ProcessThing without the fetched_ids test on comments.
ProcessThingNoDedup(thing, acc) ==
    IF thing.kind = "t1"
    THEN IF thing.id # NoId
         THEN ProcessCommentListing(
                  thing.replies,
                  [acc EXCEPT !.fetched_ids = @ \cup {thing.id},
                              !.comments = Append(@, Comment(thing))])
         ELSE acc
    ELSE IF thing.kind = "more"
         THEN AppendUnfetched(thing.children, acc)
         ELSE acc

\* ProcessThing without the recursion into the replies.
ProcessThingNoRecurse(thing, acc) ==
    IF thing.kind = "t1"
    THEN IF thing.id # NoId /\ thing.id \notin acc.fetched_ids
         THEN [acc EXCEPT !.fetched_ids = @ \cup {thing.id},
                          !.comments = Append(@, Comment(thing))]
         ELSE acc
    ELSE IF thing.kind = "more"
         THEN AppendUnfetched(thing.children, acc)
         ELSE acc

\* ProcessThing appending the comment after the walk of its replies.
ProcessThingChildFirst(thing, acc) ==
    IF thing.kind = "t1"
    THEN IF thing.id # NoId /\ thing.id \notin acc.fetched_ids
         THEN LET after == ProcessCommentListing(
                               thing.replies,
                               [acc EXCEPT !.fetched_ids = @ \cup {thing.id}])
              IN [after EXCEPT !.comments = Append(@, Comment(thing))]
         ELSE acc
    ELSE IF thing.kind = "more"
         THEN AppendUnfetched(thing.children, acc)
         ELSE acc

\* ProcessThing marking a comment that has replies as fetched without appending it.
ProcessThingMarkOnly(thing, acc) ==
    IF thing.kind = "t1"
    THEN IF thing.id # NoId /\ thing.id \notin acc.fetched_ids
         THEN ProcessCommentListing(
                  thing.replies,
                  [acc EXCEPT !.fetched_ids = @ \cup {thing.id},
                              !.comments = IF thing.replies = <<>>
                                           THEN Append(@, Comment(thing))
                                           ELSE @])
         ELSE acc
    ELSE IF thing.kind = "more"
         THEN AppendUnfetched(thing.children, acc)
         ELSE acc

\* ProcessThing walking the replies of a comment it skips.
ProcessThingSkipRecurses(thing, acc) ==
    IF thing.kind = "t1"
    THEN IF thing.id # NoId /\ thing.id \notin acc.fetched_ids
         THEN ProcessCommentListing(
                  thing.replies,
                  [acc EXCEPT !.fetched_ids = @ \cup {thing.id},
                              !.comments = Append(@, Comment(thing))])
         ELSE ProcessCommentListing(thing.replies, acc)
    ELSE IF thing.kind = "more"
         THEN AppendUnfetched(thing.children, acc)
         ELSE acc

ProcessThing(thing, acc) ==
    IF thing.kind = "t1"
    THEN IF thing.id # NoId /\ thing.id \notin acc.fetched_ids
         THEN ProcessCommentListing(
                  thing.replies,
                  [acc EXCEPT !.fetched_ids = @ \cup {thing.id},
                              !.comments = Append(@, Comment(thing))])
         ELSE acc
    ELSE IF thing.kind = "more"
         THEN AppendUnfetched(thing.children, acc)
         ELSE acc

ProcessCommentListing(children, acc) ==
    IF children = <<>> THEN acc
    ELSE ProcessCommentListing(Tail(children), ProcessThing(Head(children), acc))

VARIABLES
    comments, more_ids, fetched_ids,   \* the accumulators of one fetch
    w_pc, w_input, w_before,           \* walker runs: position, input, accumulators before
    mode,             \* "auth": RedditClient, "public": PublicRedditClient
    pc,               \* position of the fetch
    batch,            \* the ids of the expansion request in flight
    expansions_done,  \* public mode: expansions counted against max_expansions
    requests,         \* expansion requests issued so far (saturates above the cap)
    outcome,          \* how the last request of the fetch ended
    redelivered,      \* a response repeated a comment id already fetched
    grew,             \* the last response walked added pending markers
    attached,         \* submission.comments as the caller of the fetch sees it
    g_pc,             \* the gate: "idle", "ready" (in _request, before the call), "sent"
    g_kind,           \* the request being executed: "listing" or "expand"
    elapsed,          \* time.time() - last_request_time, saturating at Horizon
    gap,              \* time between the last two recorded calls (saturating)
    g_calls,          \* outbound calls made by this client instance
    sent,             \* network calls made for the request being executed
    n429,             \* 429 answers received for the request being executed
    hdr,              \* Retry-After header of the last 429 answer
    slept,            \* time.sleep(retry_after) of the last 429 answer
    g_status,         \* status of the last answer to the request being executed
    g_result,         \* how the last executed request ended
    token_fresh,      \* the bearer token is not about to expire
    progress_callback,  \* the callback given to the fetch: "none", "ok", "raising"
    cb_calls,         \* invocations of the callback in this fetch
    cb_args,          \* the arguments of its last invocation
    cb_raised,        \* an invocation of the callback raised
    submission_comments,  \* submission.comments given to extract_qa_pairs
    answer_authors,   \* the target author list
    include_deleted,  \* the include_deleted argument of the last run
    qa_pc,            \* the correlator: "ready", "extracted", "again"
    qa_pairs,         \* what the last run of extract_qa_pairs returned
    qa_first,         \* what the first run returned
    jobs,             \* the keys of the job registry of the service
    status,           \* job["status"] of each job id ("absent": no such job yet)
    percent,          \* job["progress"]["percent"]
    result,           \* job["result"]: "null" or "set"
    error,            \* job["error"]: "null" or "set"
    task,             \* the run_extraction task of each job id: where it stands
    server_up,        \* the service accepts requests (lifespan not yet ended)
    reader,           \* the progress streams: job read, position, last observation
    started,          \* run_extraction tasks created for each job id
    client,           \* the RedditClient instance the task of each job id built (0: none)
    instances,        \* RedditClient instances built by the service so far
    now,              \* time.time() as the callers of one _rate_limit read it
    last_request_time,  \* self.last_request_time of the client instance
    caller,           \* each thread in _rate_limit: position, value read, wake-up, call time
    runs              \* one get_all_comments of each client, fed the same answers

walkVars == <<w_pc, w_input, w_before>>
accVars == <<comments, more_ids, fetched_ids>>
fetchVars == <<mode, pc, batch, expansions_done, requests, outcome, redelivered, grew, attached>>
gateVars == <<g_pc, g_kind, elapsed, gap, g_calls, sent, n429, hdr, slept, g_status,
              g_result, token_fresh>>
cbVars == <<progress_callback, cb_calls, cb_args, cb_raised>>
qaVars == <<submission_comments, answer_authors, include_deleted, qa_pc, qa_pairs, qa_first>>
\* The variables of the components outside the comment fetcher.
jobVars == <<jobs, status, percent, result, error, task, server_up, reader,
             started, client, instances>>
limVars == <<now, last_request_time, caller>>
restVars == <<qaVars, jobVars, limVars, runs>>
vars == <<accVars, walkVars, fetchVars, gateVars, cbVars, restVars>>

\* What the walker runs, the fetch and the gate leave alone.
walkOutside == <<fetchVars, gateVars, cbVars, restVars>>
fetchOutside == <<walkVars, gateVars, restVars>>
gateOutside == <<accVars, walkVars, pc, batch, expansions_done, requests, outcome,
                 redelivered, grew, attached, cbVars, restVars>>

NoHeader == 0 - 1    \* no Retry-After header in the answer

GateOff ==
    /\ g_pc = "off" /\ g_kind = "none" /\ elapsed = 0 /\ gap = 0 /\ g_calls = 0
    /\ sent = 0 /\ n429 = 0 /\ hdr = NoHeader /\ slept = 0 /\ g_status = 0
    /\ g_result = "none" /\ token_fresh = TRUE

\* No progress callback is given to the fetch.
CallbackOff ==
    /\ progress_callback = "none" /\ cb_calls = 0 /\ cb_args = <<0, 0>> /\ cb_raised = FALSE

Acc == [comments |-> comments, more_ids |-> more_ids, fetched_ids |-> fetched_ids]

SetAcc(out) == /\ comments' = out.comments
               /\ more_ids' = out.more_ids
               /\ fetched_ids' = out.fetched_ids

\* fetch_submission has not assigned submission.comments.
Unset == [assigned |-> FALSE, comments |-> <<>>]

\* No correlation is running.
QAOff ==
    /\ submission_comments = <<>> /\ answer_authors = <<>> /\ include_deleted = FALSE
    /\ qa_pc = "off" /\ qa_pairs = <<>> /\ qa_first = <<>>

JobIds == {1, 2}
Readers == {1, 2}
NoObservation == [status |-> "none", result |-> "none", error |-> "none"]
NoReader == [job |-> 0, pc |-> "none", last_progress |-> 0 - 1, seen |-> NoObservation]

\* jobs: dict[str, dict] = {} and no request yet.
JobsEmpty ==
    /\ jobs = {}
    /\ status = [j \in JobIds |-> "absent"]
    /\ percent = [j \in JobIds |-> 0]
    /\ result = [j \in JobIds |-> "null"]
    /\ error = [j \in JobIds |-> "null"]
    /\ task = [j \in JobIds |-> "none"]
    /\ reader = [r \in Readers |-> NoReader]
    /\ started = [j \in JobIds |-> 0]
    /\ client = [j \in JobIds |-> 0]
    /\ instances = 0

\* The service is not running.
JobOff == JobsEmpty /\ server_up = FALSE

Threads == {1, 2}
NotCalled == 0 - 1
IdleCaller == [pc |-> "idle", read |-> 0, wake |-> 0, called |-> NotCalled]

\* No thread is in _rate_limit.
LimiterOff ==
    /\ now = 0 /\ last_request_time = 0 /\ caller = [t \in Threads |-> IdleCaller]

Modes == {"auth", "public"}
IdleRun == [pc |-> "idle", comments |-> <<>>, more_ids |-> <<>>, fetched_ids |-> {},
            batch |-> <<>>, expansions_done |-> 0, issued |-> 0]

\* The two clients are not run side by side.
ModesOff == runs = [m \in Modes |-> IdleRun]

\* The components outside the comment fetcher are not running.
RestOff == QAOff /\ JobOff /\ LimiterOff /\ ModesOff

\* No fetch is running.
FetchIdle ==
    /\ comments = <<>> /\ more_ids = <<>> /\ fetched_ids = {}
    /\ w_pc = "off" /\ w_input = <<>> /\ w_before = EmptyAcc
    /\ pc = "idle" /\ batch = <<>> /\ expansions_done = 0
    /\ requests = 0 /\ outcome = "none" /\ redelivered = FALSE /\ grew = FALSE
    /\ attached = Unset

FetchOff == FetchIdle /\ mode = "auth"

\* ------------------------------------------- the walker as a pure function
\* The accumulators start as an earlier call of the walker left them.
InitWalk ==
    /\ \E seed \in SeedListings :
          LET acc == ProcessCommentListing(seed, EmptyAcc)
          IN /\ comments = acc.comments
             /\ more_ids = acc.more_ids
             /\ fetched_ids = acc.fetched_ids
             /\ w_before = acc
    /\ w_input \in Listings
    /\ w_pc = "ready"
    /\ mode = "auth" /\ pc = "idle" /\ batch = <<>> /\ expansions_done = 0
    /\ requests = 0 /\ outcome = "none" /\ redelivered = FALSE /\ grew = FALSE
    /\ attached = Unset
    /\ GateOff
    /\ CallbackOff
    /\ RestOff

Walk ==
    /\ w_pc = "ready"
    /\ SetAcc(ProcessCommentListing(w_input, Acc))
    /\ w_before' = Acc
    /\ w_pc' = "walked"
    /\ UNCHANGED <<w_input, walkOutside>>

ReWalk ==
    /\ w_pc = "walked"
    /\ SetAcc(ProcessCommentListing(w_input, Acc))
    /\ w_before' = Acc
    /\ w_pc' = "rewalked"
    /\ UNCHANGED <<w_input, walkOutside>>

NextWalk == Walk \/ ReWalk

SpecWalk == InitWalk /\ [][NextWalk]_vars

\* --------------------------------------------------- the fetch, both clients
\* One call of get_all_comments, in the authenticated client under
\* RedditArchiver.fetch_submission.  A call of _request is one step of the
\* fetch: it returns a decoded body or raises (the gate itself is modelled
\* further down).  The server answers what it likes.
InitFetch ==
    /\ comments = <<>> /\ more_ids = <<>> /\ fetched_ids = {}
    /\ w_pc = "off" /\ w_input = <<>> /\ w_before = EmptyAcc
    /\ mode \in {"auth", "public"}
    /\ pc = "start"
    /\ batch = <<>> /\ expansions_done = 0 /\ requests = 0
    /\ outcome = "none" /\ redelivered = FALSE /\ grew = FALSE /\ attached = Unset
    /\ GateOff
    /\ CallbackOff
    /\ RestOff

\* Progress with the two arguments exchanged.
ProgressSwapped(n, m) ==
    IF progress_callback = "none"
    THEN UNCHANGED <<cb_calls, cb_args>>
    ELSE cb_calls' = cb_calls + 1 /\ cb_args' = <<m, n>>

\* if progress_callback: progress_callback(len(comments), len(more_ids))
Progress(n, m) ==
    IF progress_callback = "none"
    THEN UNCHANGED <<cb_calls, cb_args>>
    ELSE cb_calls' = cb_calls + 1 /\ cb_args' = <<n, m>>

\* Feed a listing to the walker and note whether it repeated a comment.
WalkResponse(children) ==
    LET out == ProcessCommentListing(children, Acc)
    IN /\ Len(out.more_ids) <= MaxPending
       /\ SetAcc(out)
       /\ redelivered' = (redelivered \/
             CountComments(children) > Len(out.comments) - Len(comments))
       /\ grew' = (Len(out.more_ids) > Len(more_ids))

\* The initial listing request answered 200 with [submission, comments].
ListingOk ==
    /\ pc = "start"
    /\ \E children \in ServerListings : WalkResponse(children)
    /\ Progress(Len(comments'), Len(more_ids'))
    /\ pc' = "loop"
    /\ outcome' = "ok"
    /\ UNCHANGED <<fetchOutside, mode, batch, expansions_done, requests, attached,
                   progress_callback, cb_raised>>

\* 200 with a one-element body: len(response) > 1 is false, nothing is walked.
ListingShort ==
    /\ pc = "start"
    /\ Progress(Len(comments), Len(more_ids))
    /\ pc' = "loop"
    /\ outcome' = "ok"
    /\ UNCHANGED <<accVars, fetchOutside, mode, batch, expansions_done, requests,
                   redelivered, grew, attached, progress_callback, cb_raised>>

\* ListingRaise with the exception swallowed.
ListingRaiseSwallowed ==
    /\ pc = "start"
    /\ pc' = "loop"
    /\ outcome' = "error"
    /\ UNCHANGED <<accVars, fetchOutside, mode, batch, expansions_done, requests,
                   redelivered, grew, attached, cbVars>>

\* _request raised on the initial listing: nothing catches it.
ListingRaise ==
    /\ pc = "start"
    /\ pc' = "raised"
    /\ outcome' = "error"
    /\ UNCHANGED <<accVars, fetchOutside, mode, batch, expansions_done, requests,
                   redelivered, grew, attached, cbVars>>

\* LoopCondition with a cap on the batches in both clients.
LoopConditionCapped ==
    /\ more_ids # <<>>
    /\ requests < MaxExpansions

\* while more_ids [and expansions_done < max_expansions]
LoopCondition ==
    /\ more_ids # <<>>
    /\ (mode = "public" => expansions_done < MaxExpansions)

\* TakeBatch taking the batch from the back of the queue.
TakeBatchFromBack ==
    /\ pc = "loop"
    /\ LoopCondition
    /\ batch' = SubSeq(more_ids, Len(more_ids) - Min(BatchSize, Len(more_ids)) + 1,
                        Len(more_ids))
    /\ more_ids' = SubSeq(more_ids, 1, Len(more_ids) - Min(BatchSize, Len(more_ids)))
    /\ requests' = Min(requests + 1, MaxExpansions + 1)
    /\ pc' = "expanding"
    /\ UNCHANGED <<comments, fetched_ids, fetchOutside, mode, expansions_done, outcome,
                   redelivered, grew, attached, cbVars>>

\* batch = more_ids[:100]; more_ids = more_ids[100:]; issue the request.
TakeBatch ==
    /\ pc = "loop"
    /\ LoopCondition
    /\ batch' = SubSeq(more_ids, 1, Min(BatchSize, Len(more_ids)))
    /\ more_ids' = SubSeq(more_ids, Min(BatchSize, Len(more_ids)) + 1, Len(more_ids))
    /\ requests' = Min(requests + 1, MaxExpansions + 1)
    /\ pc' = "expanding"
    /\ UNCHANGED <<comments, fetched_ids, fetchOutside, mode, expansions_done, outcome,
                   redelivered, grew, attached, cbVars>>

\* 200 with json.data.things: walk them; the public client counts the batch.
ExpandThings ==
    /\ pc = "expanding"
    /\ \E things \in ServerListings : WalkResponse(things)
    /\ expansions_done' = IF mode = "public" THEN expansions_done + 1 ELSE expansions_done
    /\ Progress(Len(comments'), Len(more_ids'))
    /\ pc' = "loop"
    /\ outcome' = "ok"
    /\ batch' = <<>>
    /\ UNCHANGED <<fetchOutside, mode, requests, attached, progress_callback, cb_raised>>

\* 200 with a body that has no json.data: skipped, and not counted.
ExpandNoData ==
    /\ pc = "expanding"
    /\ pc' = "loop"
    /\ outcome' = "nodata"
    /\ batch' = <<>>
    /\ grew' = FALSE
    /\ UNCHANGED <<accVars, fetchOutside, mode, expansions_done, requests, redelivered,
                   attached, cbVars>>

\* ExpandFail putting the failed batch back in front of the queue.
ExpandFailRequeue ==
    /\ pc = "expanding"
    /\ pc' = IF mode = "auth" THEN "loop" ELSE "done"
    /\ outcome' = "failed"
    /\ more_ids' = batch \o more_ids
    /\ batch' = <<>>
    /\ grew' = FALSE
    /\ UNCHANGED <<comments, fetched_ids, fetchOutside, mode, expansions_done, requests,
                   redelivered, attached, cbVars>>

\* ExpandFail going on with the next batch in the public client too.
ExpandFailContinues ==
    /\ pc = "expanding"
    /\ pc' = "loop"
    /\ outcome' = "failed"
    /\ batch' = <<>>
    /\ grew' = FALSE
    /\ UNCHANGED <<accVars, fetchOutside, mode, expansions_done, requests, redelivered,
                   attached, cbVars>>

\* The expansion call failed (a raise of _request, a non-200 status of the
\* public call, an exception): a warning in the authenticated loop, a break
\* in the public one.
ExpandFail ==
    /\ pc = "expanding"
    /\ pc' = IF mode = "auth" THEN "loop" ELSE "done"
    /\ outcome' = "failed"
    /\ batch' = <<>>
    /\ grew' = FALSE
    /\ UNCHANGED <<accVars, fetchOutside, mode, expansions_done, requests, redelivered,
                   attached, cbVars>>

\* The while condition is false: return comments.
ReturnComments ==
    /\ pc = "loop"
    /\ ~LoopCondition
    /\ pc' = "done"
    /\ UNCHANGED <<accVars, fetchOutside, mode, batch, expansions_done, requests, outcome,
                   redelivered, grew, attached, cbVars>>

\* RedditArchiver.fetch_submission: submission.comments = comments.
AttachComments ==
    /\ pc = "done"
    /\ mode = "auth"
    /\ attached' = [assigned |-> TRUE, comments |-> comments]
    /\ pc' = "returned"
    /\ UNCHANGED <<accVars, fetchOutside, mode, batch, expansions_done, requests, outcome,
                   redelivered, grew, cbVars>>

NextFetch ==
    \/ ListingOk \/ ListingShort \/ ListingRaise
    \/ TakeBatch \/ ExpandThings \/ ExpandNoData \/ ExpandFail
    \/ ReturnComments \/ AttachComments

SpecFetch == InitFetch /\ [][NextFetch]_vars

\* Every request returns (with a body or an exception) and the client then
\* takes its next step: the fetch is sequential code that never waits on
\* anything but its own requests.
FairSpecFetch == SpecFetch /\ WF_vars(NextFetch)

Returned == pc \in {"done", "returned", "raised"}

\* ------------------------------------------ the fetch with a progress callback
\* PublicRedditClient.get_all_comments(submission_id, progress_callback):
\* the only fetch that takes a callback.  A "raising" callback may raise at
\* any of its invocations.
InitProgress ==
    /\ comments = <<>> /\ more_ids = <<>> /\ fetched_ids = {}
    /\ w_pc = "off" /\ w_input = <<>> /\ w_before = EmptyAcc
    /\ mode = "public"
    /\ pc = "start"
    /\ batch = <<>> /\ expansions_done = 0 /\ requests = 0
    /\ outcome = "none" /\ redelivered = FALSE /\ grew = FALSE /\ attached = Unset
    /\ GateOff
    /\ progress_callback \in {"ok", "raising"}
    /\ cb_calls = 0 /\ cb_args = <<0, 0>> /\ cb_raised = FALSE
    /\ RestOff

\* The callback raises at its invocation after the initial listing (line
\* 92, outside any try): the exception leaves get_all_comments.
ListingCallbackRaises ==
    /\ pc = "start"
    /\ progress_callback = "raising"
    /\ \/ \E children \in ServerListings : WalkResponse(children)
       \/ UNCHANGED <<accVars, redelivered, grew>>
    /\ Progress(Len(comments'), Len(more_ids'))
    /\ cb_raised' = TRUE
    /\ pc' = "raised"
    /\ outcome' = "ok"
    /\ UNCHANGED <<fetchOutside, mode, batch, expansions_done, requests, attached,
                   progress_callback>>

\* The callback raises at its invocation after a batch (line 121, inside
\* the try of the loop): `except Exception: break` takes it.
ExpandCallbackRaises ==
    /\ pc = "expanding"
    /\ mode = "public"
    /\ progress_callback = "raising"
    /\ \E things \in ServerListings : WalkResponse(things)
    /\ expansions_done' = expansions_done + 1
    /\ Progress(Len(comments'), Len(more_ids'))
    /\ cb_raised' = TRUE
    /\ pc' = "done"
    /\ outcome' = "ok"
    /\ batch' = <<>>
    /\ UNCHANGED <<fetchOutside, mode, requests, attached, progress_callback>>

NextProgress ==
    \/ ListingOk \/ ListingShort \/ ListingRaise \/ ListingCallbackRaises
    \/ TakeBatch \/ ExpandThings \/ ExpandNoData \/ ExpandFail \/ ExpandCallbackRaises
    \/ ReturnComments

SpecProgress == InitProgress /\ [][NextProgress]_vars

\* ------------------------------------------------------- the request gate
\* One client instance used sequentially: _rate_limit and _request of both
\* clients, and the public expansion call, which calls _rate_limit and
\* session.get itself.  Time is kept relative to the last recorded call.
MinInterval(m) == IF m = "auth" THEN 1 ELSE 2

Statuses == {200, 429, 403, 500}
RetryAfterHeaders == {NoHeader} \cup (0..MaxRetryAfter)

\* RetryAfter without the default for a missing header.
RetryAfterHeaderOnly(h) == IF h = NoHeader THEN 0 ELSE h

\* int(response.headers.get("Retry-After", 60))
RetryAfter(h) == IF h = NoHeader THEN DefaultRetryAfter ELSE h

\* _rate_limit with the sleep left out.
SleepNeededNone(min_request_interval, e) == 0

\* _rate_limit: the sleep after `elapsed` seconds since the last call.
SleepNeeded(min_request_interval, e) ==
    IF e < min_request_interval THEN min_request_interval - e ELSE 0

\* The request goes through _request (token check, 429 handling, raise).
ViaRequest == mode = "auth" \/ g_kind = "listing"

InitGate ==
    /\ comments = <<>> /\ more_ids = <<>> /\ fetched_ids = {}
    /\ w_pc = "off" /\ w_input = <<>> /\ w_before = EmptyAcc
    /\ mode \in {"auth", "public"}
    /\ pc = "gate" /\ batch = <<>> /\ expansions_done = 0 /\ requests = 0
    /\ outcome = "none" /\ redelivered = FALSE /\ grew = FALSE /\ attached = Unset
    /\ g_pc = "idle" /\ g_kind = "none"
    /\ elapsed = Horizon      \* last_request_time = 0.0
    /\ gap = Horizon /\ g_calls = 0 /\ sent = 0 /\ n429 = 0
    /\ hdr = NoHeader /\ slept = 0 /\ g_status = 0 /\ g_result = "none"
    /\ token_fresh = TRUE
    /\ CallbackOff
    /\ RestOff

\* The fetcher executes its next request: the listing of a fetch, or one
\* more expansion batch of the fetch in progress.
Execute ==
    /\ g_pc = "idle"
    /\ g_calls < MaxCalls
    /\ \E k \in {"listing", "expand"} :
          /\ k = "expand" =>
                /\ g_kind # "none"
                /\ ~(g_kind = "listing" /\ g_result # "ok")
                /\ g_result # "break"
          /\ g_kind' = k
    /\ g_pc' = "ready"
    /\ sent' = 0 /\ n429' = 0 /\ g_status' = 0 /\ slept' = 0 /\ hdr' = NoHeader
    /\ g_result' = "none"
    /\ UNCHANGED <<gateOutside, mode, elapsed, gap, g_calls, token_fresh>>

\* Time passes: network latency, the caller's own work.
Tick ==
    /\ g_pc # "off"
    /\ elapsed < Horizon
    /\ elapsed' = elapsed + 1
    /\ UNCHANGED <<gateOutside, mode, g_pc, g_kind, gap, g_calls, sent, n429, hdr, slept,
                   g_status, g_result, token_fresh>>

\* time.time() >= self.token_expires - 60 becomes true.
TokenExpires ==
    /\ g_pc # "off"
    /\ mode = "auth"
    /\ token_fresh
    /\ token_fresh' = FALSE
    /\ UNCHANGED <<gateOutside, mode, g_pc, g_kind, elapsed, gap, g_calls, sent, n429, hdr,
                   slept, g_status, g_result>>

\* self.authenticate() raises inside _request: no call is made.
RefreshFails ==
    /\ g_pc = "ready"
    /\ ViaRequest /\ mode = "auth" /\ ~token_fresh
    /\ g_pc' = "idle"
    /\ g_result' = "autherror"
    /\ UNCHANGED <<gateOutside, mode, g_kind, elapsed, gap, g_calls, sent, n429, hdr, slept,
                   g_status, token_fresh>>

\* [authenticate();] _rate_limit(); session.request(...): sleep what is
\* missing of the minimum interval (sleep may last longer), record the
\* call time, make the call.
Send ==
    /\ g_pc = "ready"
    /\ g_calls < MaxCalls
    /\ \E over \in 0..1 :
          gap' = Min(elapsed + SleepNeeded(MinInterval(mode), elapsed) + over, Horizon)
    /\ elapsed' = 0
    /\ token_fresh' = TRUE
    /\ g_calls' = g_calls + 1
    /\ sent' = sent + 1
    /\ g_pc' = "sent"
    /\ UNCHANGED <<gateOutside, mode, g_kind, n429, hdr, slept, g_status, g_result>>

\* Status 200: the body is returned.
Recv200 ==
    /\ g_pc = "sent"
    /\ g_status' = 200
    /\ g_result' = "ok"
    /\ g_pc' = "idle"
    /\ UNCHANGED <<gateOutside, mode, g_kind, elapsed, gap, g_calls, sent, n429, hdr, slept,
                   token_fresh>>

\* Status 429 in _request: sleep retry_after, then _request again.
Recv429 ==
    /\ g_pc = "sent"
    /\ ViaRequest
    /\ \E h \in RetryAfterHeaders :
          /\ hdr' = h
          /\ slept' = RetryAfter(h)
          /\ elapsed' = Min(elapsed + RetryAfter(h), Horizon)
    /\ g_status' = 429
    /\ n429' = n429 + 1
    /\ g_pc' = "ready"
    /\ UNCHANGED <<gateOutside, mode, g_kind, gap, g_calls, sent, g_result, token_fresh>>

\* RecvFailure re-issuing the request as for a 429.
RecvFailureRetried ==
    /\ g_pc = "sent"
    /\ \E st \in Statuses \ {200, 429} : g_status' = st
    /\ g_pc' = "ready"
    /\ UNCHANGED <<gateOutside, mode, g_kind, elapsed, gap, g_calls, sent, n429, hdr, slept,
                   g_result, token_fresh>>

\* Any other status: _request raises; the public expansion call, which
\* does not go through _request, breaks out of its loop on any non-200.
RecvFailure ==
    /\ g_pc = "sent"
    /\ \E st \in Statuses \ {200} :
          /\ st = 429 => ~ViaRequest
          /\ g_status' = st
    /\ g_result' = IF ViaRequest THEN "error" ELSE "break"
    /\ g_pc' = "idle"
    /\ UNCHANGED <<gateOutside, mode, g_kind, elapsed, gap, g_calls, sent, n429, hdr, slept,
                   token_fresh>>

NextGate ==
    \/ Execute \/ Tick \/ TokenExpires \/ RefreshFails
    \/ Send \/ Recv200 \/ Recv429 \/ RecvFailure

SpecGate == InitGate /\ [][NextGate]_vars

\* ------------------------------------------------- the question/answer correlator
\* RedditArchiver.extract_qa_pairs as a function of submission.comments,
\* answer_authors and include_deleted.  A Comment is a record [id, author,
\* body, created_utc, parent_id]; a parent_id is its three-character prefix
\* and the rest ("t1_" + comment id, "t3_" + submission id).  The k-th
\* comment of a submission has id k (the fetcher returns distinct ids).
AuthorNames == {"Bob", "eve"}
AuthorLists == {<<"BOB">>}
Bodies == {"text", "[deleted]", "[removed]"}
SubmissionRef == 0
ParentIds ==
    {[prefix |-> "t3_", rest |-> SubmissionRef]}
        \cup {[prefix |-> "t1_", rest |-> j] : j \in 1..MaxComments}

CommentFields == [author : AuthorNames, body : Bodies, created_utc : 1..MaxTime,
                  parent_id : ParentIds]

CommentOf(k, f) ==
    [id |-> k, author |-> f.author, body |-> f.body, created_utc |-> f.created_utc,
     parent_id |-> f.parent_id]

\* The submission whose k-th comment has the fields fields[k].
CommentList(fields) == [k \in 1..Len(fields) |-> CommentOf(k, fields[k])]

\* Lower leaving the name as it is.
LowerNone(a) == a

\* str.lower() on the names in use.
Lower(a) ==
    CASE a = "Bob" -> "bob"
      [] a = "BOB" -> "bob"
      [] a = "Eve" -> "eve"
      [] a = "EVE" -> "eve"
      [] OTHER -> a

\* comment_map[comment.id] = comment, for each comment in turn: the last
\* comment with an id is the one kept.
CommentMap(cs) ==
    [i \in {cs[k].id : k \in 1..Len(cs)} |->
        cs[CHOOSE k \in 1..Len(cs) :
              cs[k].id = i /\ \A j \in (k + 1)..Len(cs) : cs[j].id # i]]

\* body in ("[deleted]", "[removed]") with only the first sentinel.
DeletedBodyFirstOnly(body) == body = "[deleted]"

\* body in ("[deleted]", "[removed]")
DeletedBody(body) == body \in {"[deleted]", "[removed]"}

QAPair(question, answers) == [question |-> question, answers |-> answers]

\* ExistingIndex finding nothing.
ExistingIndexNone(pairs, parent) == 0

\* next((qa for qa in qa_pairs if qa.question.id == parent.id), None): the
\* index of the first such pair, 0 for None.
ExistingIndex(pairs, parent) ==
    IF \E k \in 1..Len(pairs) : pairs[k].question.id = parent.id
    THEN CHOOSE k \in 1..Len(pairs) :
            /\ pairs[k].question.id = parent.id
            /\ \A j \in 1..(k - 1) : pairs[j].question.id # parent.id
    ELSE 0

\* PairWith taking a reply to the submission as its own question.
PairWithTopLevel(pairs, comment, comment_map, include) ==
    IF comment.parent_id.prefix = "t3_"
    THEN Append(pairs, QAPair(comment, <<comment>>))
    ELSE pairs

\* PairWith looking the parent up whatever the prefix of the reference.
PairWithAnyPrefix(pairs, comment, comment_map, include) ==
    LET parent_comment_id == comment.parent_id.rest
    IN IF parent_comment_id \in DOMAIN comment_map
       THEN LET parent == comment_map[parent_comment_id]
                existing == ExistingIndex(pairs, parent)
            IN IF ~include /\ DeletedBody(parent.body)
               THEN pairs
               ELSE IF existing # 0
                    THEN [pairs EXCEPT ![existing].answers = Append(@, comment)]
                    ELSE Append(pairs, QAPair(parent, <<comment>>))
       ELSE pairs

\* The body of the loop for a comment of a target author that was not
\* skipped as deleted: find the parent question and record the answer.
PairWith(pairs, comment, comment_map, include) ==
    IF comment.parent_id.prefix = "t1_"
    THEN LET parent_comment_id == comment.parent_id.rest
         IN IF parent_comment_id \in DOMAIN comment_map
            THEN LET parent == comment_map[parent_comment_id]
                     existing == ExistingIndex(pairs, parent)
                 IN IF ~include /\ DeletedBody(parent.body)
                    THEN pairs
                    ELSE IF existing # 0
                         THEN [pairs EXCEPT ![existing].answers = Append(@, comment)]
                         ELSE Append(pairs, QAPair(parent, <<comment>>))
            ELSE pairs
    ELSE pairs

\* Correlate without the test of the author.
CorrelateAnyAuthor(pairs, comment, comment_map, authors_lower, include) ==
    IF ~include /\ DeletedBody(comment.body)
    THEN pairs
    ELSE PairWith(pairs, comment, comment_map, include)

\* One iteration of `for comment in submission.comments`.
Correlate(pairs, comment, comment_map, authors_lower, include) ==
    IF comment.author # "" /\ Lower(comment.author) \in Range(authors_lower)
    THEN IF ~include /\ DeletedBody(comment.body)
         THEN pairs
         ELSE PairWith(pairs, comment, comment_map, include)
    ELSE pairs

RECURSIVE CorrelateAll(_, _, _, _, _)
CorrelateAll(pairs, cs, comment_map, authors_lower, include) ==
    IF cs = <<>> THEN pairs
    ELSE CorrelateAll(Correlate(pairs, Head(cs), comment_map, authors_lower, include),
                      Tail(cs), comment_map, authors_lower, include)

\* list.sort(key=...) is stable: an element goes after the elements with a
\* smaller key and after the earlier elements with the same key.
SortedPosition(keys, k) ==
    1 + Cardinality({j \in 1..Len(keys) :
                        keys[j] < keys[k] \/ (keys[j] = keys[k] /\ j < k)})

\* SortByCreated leaving the list as it is.
SortByCreatedNone(cs) == cs

\* answers.sort(key=lambda a: a.created_utc)
SortByCreated(cs) ==
    LET keys == [k \in 1..Len(cs) |-> cs[k].created_utc]
    IN [p \in 1..Len(cs) |-> cs[CHOOSE k \in 1..Len(cs) : SortedPosition(keys, k) = p]]

\* qa_pairs.sort(key=lambda qa: qa.question.created_utc)
SortByQuestion(pairs) ==
    LET keys == [k \in 1..Len(pairs) |-> pairs[k].question.created_utc]
    IN [p \in 1..Len(pairs) |->
           pairs[CHOOSE k \in 1..Len(pairs) : SortedPosition(keys, k) = p]]

\* The pairs as collected by the loop, before the two sorts.
Collected(cs, authors, include) ==
    CorrelateAll(<<>>, cs, CommentMap(cs),
                 [k \in 1..Len(authors) |-> Lower(authors[k])], include)

ExtractQAPairs(cs, authors, include) ==
    LET sorted == SortByQuestion(Collected(cs, authors, include))
    IN [p \in 1..Len(sorted) |->
           [sorted[p] EXCEPT !.answers = SortByCreated(@)]]

InitQA ==
    /\ FetchOff /\ GateOff /\ CallbackOff /\ JobOff /\ LimiterOff /\ ModesOff
    /\ \E n \in 0..MaxComments : \E fields \in [1..n -> CommentFields] :
          submission_comments = CommentList(fields)
    /\ answer_authors \in AuthorLists
    /\ include_deleted = FALSE
    /\ qa_pc = "ready"
    /\ qa_pairs = <<>> /\ qa_first = <<>>

qaOutside == <<accVars, walkVars, fetchVars, gateVars, cbVars, jobVars, limVars, runs>>

\* Extract sorting submission.comments in place.
ExtractSortsInput ==
    /\ qa_pc = "ready"
    /\ \E include \in BOOLEAN :
          /\ include_deleted' = include
          /\ qa_pairs' = ExtractQAPairs(submission_comments, answer_authors, include)
    /\ qa_first' = qa_pairs'
    /\ submission_comments' = SortByCreated(submission_comments)
    /\ qa_pc' = "extracted"
    /\ UNCHANGED <<answer_authors, qaOutside>>

\* extract_qa_pairs(submission, answer_authors, include_deleted): the
\* Submission is read, never written.
Extract ==
    /\ qa_pc = "ready"
    /\ \E include \in BOOLEAN :
          /\ include_deleted' = include
          /\ qa_pairs' = ExtractQAPairs(submission_comments, answer_authors, include)
    /\ qa_first' = qa_pairs'
    /\ qa_pc' = "extracted"
    /\ UNCHANGED <<submission_comments, answer_authors, qaOutside>>

\* A second run on the same Submission object with the same arguments.
ExtractAgain ==
    /\ qa_pc = "extracted"
    /\ qa_pairs' = ExtractQAPairs(submission_comments, answer_authors, include_deleted)
    /\ qa_pc' = "again"
    /\ UNCHANGED <<submission_comments, answer_authors, include_deleted, qa_first, qaOutside>>

NextQA == Extract \/ ExtractAgain

SpecQA == InitQA /\ [][NextQA]_vars

\* The correlator on submissions whose comments spell their authors in
\* any letter case and carry any parent_id string: a comment reference, the
\* submission reference, a reference to a comment that is not in the
\* collection, a reference with another prefix, the empty string.
WideAuthorNames == {"Bob", "BOB", "eve"}
WideAuthorLists == {<<"bob">>, <<"BOB", "Eve">>}
WideParentIds ==
    {[prefix |-> "t3_", rest |-> SubmissionRef]}
        \cup {[prefix |-> "t1_", rest |-> j] : j \in 1..(MaxThread + 1)}
        \cup {[prefix |-> "t2_", rest |-> 1], [prefix |-> "", rest |-> SubmissionRef]}

WideCommentFields == [author : WideAuthorNames, body : {"text"}, created_utc : {1},
                      parent_id : WideParentIds]

InitQAWide ==
    /\ FetchOff /\ GateOff /\ CallbackOff /\ JobOff /\ LimiterOff /\ ModesOff
    /\ \E n \in 0..MaxThread : \E fields \in [1..n -> WideCommentFields] :
          submission_comments = CommentList(fields)
    /\ answer_authors \in WideAuthorLists
    /\ include_deleted = FALSE
    /\ qa_pc = "ready"
    /\ qa_pairs = <<>> /\ qa_first = <<>>

SpecQAWide == InitQAWide /\ [][NextQA]_vars

\* The service's own correlator: server.extract_qa_pairs(submission,
\* accounts), which has no include_deleted argument.

\* ServerPairWith keeping an answer whose parent is deleted or removed.
ServerPairWithDeletedParent(pairs, comment, comment_map) ==
    IF comment.parent_id.prefix = "t1_"
    THEN LET parent_comment_id == comment.parent_id.rest
         IN IF parent_comment_id \in DOMAIN comment_map
            THEN LET parent == comment_map[parent_comment_id]
                     existing == ExistingIndex(pairs, parent)
                 IN IF existing # 0
                    THEN [pairs EXCEPT ![existing].answers = Append(@, comment)]
                    ELSE Append(pairs, QAPair(parent, <<comment>>))
            ELSE pairs
    ELSE pairs

\* The body of the service's loop for a comment of a target account whose
\* body is not a sentinel.
ServerPairWith(pairs, comment, comment_map) ==
    IF comment.parent_id.prefix = "t1_"
    THEN LET parent_comment_id == comment.parent_id.rest
         IN IF parent_comment_id \in DOMAIN comment_map
            THEN LET parent == comment_map[parent_comment_id]
                     existing == ExistingIndex(pairs, parent)
                 IN IF DeletedBody(parent.body)
                    THEN pairs
                    ELSE IF existing # 0
                         THEN [pairs EXCEPT ![existing].answers = Append(@, comment)]
                         ELSE Append(pairs, QAPair(parent, <<comment>>))
            ELSE pairs
    ELSE pairs

\* One iteration of the service's `for comment in submission.comments`.
ServerCorrelate(pairs, comment, comment_map, accounts_lower) ==
    IF comment.author # "" /\ Lower(comment.author) \in Range(accounts_lower)
    THEN IF DeletedBody(comment.body)
         THEN pairs
         ELSE ServerPairWith(pairs, comment, comment_map)
    ELSE pairs

RECURSIVE ServerCorrelateAll(_, _, _, _)
ServerCorrelateAll(pairs, cs, comment_map, accounts_lower) ==
    IF cs = <<>> THEN pairs
    ELSE ServerCorrelateAll(ServerCorrelate(pairs, Head(cs), comment_map, accounts_lower),
                            Tail(cs), comment_map, accounts_lower)

ServerExtractQAPairs(cs, accounts) ==
    LET accounts_lower == [k \in 1..Len(accounts) |-> Lower(accounts[k])]
        sorted == SortByQuestion(ServerCorrelateAll(<<>>, cs, CommentMap(cs), accounts_lower))
    IN [p \in 1..Len(sorted) |->
           [sorted[p] EXCEPT !.answers = SortByCreated(@)]]

\* server.extract_qa_pairs(submission, accounts) on the Submission and the
\* names the archiver's correlator was run on.
ServerExtract ==
    /\ qa_pc = "extracted"
    /\ qa_pairs' = ServerExtractQAPairs(submission_comments, answer_authors)
    /\ qa_pc' = "served"
    /\ UNCHANGED <<submission_comments, answer_authors, include_deleted, qa_first, qaOutside>>

NextQAService == Extract \/ ServerExtract

SpecQAService == InitQA /\ [][NextQAService]_vars

\* ------------------------------------------------------- the service's jobs
\* server.py: start_extraction, the run_extraction task of each job, the
\* progress streams and the end of the lifespan, on one asyncio event loop:
\* a coroutine runs without interruption from one await to the next.
jobOutside == <<accVars, walkVars, fetchVars, gateVars, cbVars, qaVars, limVars, runs>>

InitJob ==
    /\ FetchOff /\ GateOff /\ CallbackOff /\ QAOff /\ LimiterOff /\ ModesOff
    /\ JobsEmpty
    /\ server_up = TRUE

\* StartExtraction with a job id that may be in use already.
StartExtractionAnyId ==
    /\ server_up
    /\ \E job_id \in JobIds :
          /\ started[job_id] < 2
          /\ jobs' = jobs \cup {job_id}
          /\ status' = [status EXCEPT ![job_id] = "pending"]
          /\ task' = [task EXCEPT ![job_id] = "created"]
          /\ started' = [started EXCEPT ![job_id] = @ + 1]
    /\ UNCHANGED <<percent, result, error, server_up, reader, jobOutside,
                 client, instances>>

\* POST /api/extract: a fresh uuid4, the job record, the task.
StartExtraction ==
    /\ server_up
    /\ \E job_id \in JobIds :
          /\ status[job_id] = "absent"
          /\ jobs' = jobs \cup {job_id}
          /\ status' = [status EXCEPT ![job_id] = "pending"]
          /\ task' = [task EXCEPT ![job_id] = "created"]
          /\ started' = [started EXCEPT ![job_id] = @ + 1]
    /\ UNCHANGED <<percent, result, error, server_up, reader, jobOutside,
                 client, instances>>

\* RunStart leaving the status as it is.
RunStartNoStatus ==
    \E job_id \in JobIds :
       /\ task[job_id] = "created"
       /\ job_id \in jobs
       /\ percent' = [percent EXCEPT ![job_id] = 5]
       /\ task' = [task EXCEPT ![job_id] = "authenticate"]
       /\ instances' = instances + 1
       /\ client' = [client EXCEPT ![job_id] = instances + 1]
       /\ UNCHANGED <<jobs, status, result, error, server_up, reader, jobOutside, started>>

\* run_extraction up to its first await: the job is found, its status
\* becomes "running", a RedditClient is built and authenticates in the
\* executor.
RunStart ==
    \E job_id \in JobIds :
       /\ task[job_id] = "created"
       /\ job_id \in jobs
       /\ status' = [status EXCEPT ![job_id] = "running"]
       /\ percent' = [percent EXCEPT ![job_id] = 5]
       /\ task' = [task EXCEPT ![job_id] = "authenticate"]
       /\ instances' = instances + 1
       /\ client' = [client EXCEPT ![job_id] = instances + 1]
       /\ UNCHANGED <<jobs, result, error, server_up, reader, jobOutside, started>>

\* job = jobs.get(job_id); if not job: return.
RunNoJob ==
    \E job_id \in JobIds :
       /\ task[job_id] = "created"
       /\ job_id \notin jobs
       /\ task' = [task EXCEPT ![job_id] = "returned"]
       /\ UNCHANGED <<jobs, status, percent, result, error, server_up, reader, jobOutside,
                 started, client, instances>>

\* client.authenticate returned: get_submission goes to the executor.
Authenticated ==
    \E job_id \in JobIds :
       /\ task[job_id] = "authenticate"
       /\ percent' = [percent EXCEPT ![job_id] = 10]
       /\ task' = [task EXCEPT ![job_id] = "get_submission"]
       /\ UNCHANGED <<jobs, status, result, error, server_up, reader, jobOutside,
                 started, client, instances>>

\* get_submission returned: get_all_comments goes to the executor.
SubmissionFetched ==
    \E job_id \in JobIds :
       /\ task[job_id] = "get_submission"
       /\ percent' = [percent EXCEPT ![job_id] = 20]
       /\ task' = [task EXCEPT ![job_id] = "get_all_comments"]
       /\ UNCHANGED <<jobs, status, result, error, server_up, reader, jobOutside,
                 started, client, instances>>

\* CommentsFetched setting the status without storing the result.
CommentsFetchedNoResult ==
    \E job_id \in JobIds :
       /\ task[job_id] = "get_all_comments"
       /\ percent' = [percent EXCEPT ![job_id] = 100]
       /\ status' = [status EXCEPT ![job_id] = "complete"]
       /\ task' = [task EXCEPT ![job_id] = "returned"]
       /\ UNCHANGED <<jobs, result, error, server_up, reader, jobOutside,
                 started, client, instances>>

\* get_all_comments returned: the pairs are extracted, the result is
\* stored, the status becomes "complete" (no await in between).
CommentsFetched ==
    \E job_id \in JobIds :
       /\ task[job_id] = "get_all_comments"
       /\ percent' = [percent EXCEPT ![job_id] = 100]
       /\ result' = [result EXCEPT ![job_id] = "set"]
       /\ status' = [status EXCEPT ![job_id] = "complete"]
       /\ task' = [task EXCEPT ![job_id] = "returned"]
       /\ UNCHANGED <<jobs, error, server_up, reader, jobOutside,
                 started, client, instances>>

\* An awaited call raised: except Exception sets status and error.
RunFails ==
    \E job_id \in JobIds :
       /\ task[job_id] \in {"authenticate", "get_submission", "get_all_comments"}
       /\ status' = [status EXCEPT ![job_id] = "error"]
       /\ error' = [error EXCEPT ![job_id] = "set"]
       /\ task' = [task EXCEPT ![job_id] = "returned"]
       /\ UNCHANGED <<jobs, percent, result, server_up, reader, jobOutside,
                 started, client, instances>>

\* get_all_comments returned and extract_qa_pairs raised: the progress
\* was already moved to 90.
ExtractFails ==
    \E job_id \in JobIds :
       /\ task[job_id] = "get_all_comments"
       /\ percent' = [percent EXCEPT ![job_id] = 90]
       /\ status' = [status EXCEPT ![job_id] = "error"]
       /\ error' = [error EXCEPT ![job_id] = "set"]
       /\ task' = [task EXCEPT ![job_id] = "returned"]
       /\ UNCHANGED <<jobs, result, server_up, reader, jobOutside,
                 started, client, instances>>

\* GET /api/progress/{job_id} for a job of the registry (404 otherwise).
StreamProgress ==
    /\ server_up
    /\ \E r \in Readers : \E job_id \in jobs :
          /\ reader[r].pc = "none"
          /\ reader' = [reader EXCEPT ![r] = [NoReader EXCEPT !.job = job_id, !.pc = "open"]]
    /\ UNCHANGED <<jobs, status, percent, result, error, task, server_up, jobOutside,
                 started, client, instances>>

\* One turn of event_generator's loop, up to asyncio.sleep.
Poll ==
    \E r \in Readers :
       /\ reader[r].pc = "open"
       /\ LET job_id == reader[r].job
          IN reader' =
                IF job_id \notin jobs
                THEN [reader EXCEPT ![r].pc = "closed"]
                ELSE [reader EXCEPT
                        ![r].last_progress = percent[job_id],
                        ![r].seen = [status |-> status[job_id], result |-> result[job_id],
                                     error |-> error[job_id]],
                        ![r].pc = IF status[job_id] \in {"complete", "error"}
                                  THEN "closed" ELSE "open"]
       /\ UNCHANGED <<jobs, status, percent, result, error, task, server_up, jobOutside,
                 started, client, instances>>

\* The lifespan ends: jobs.clear().
Shutdown ==
    /\ server_up
    /\ server_up' = FALSE
    /\ jobs' = {}
    /\ UNCHANGED <<status, percent, result, error, task, reader, jobOutside,
                 started, client, instances>>

NextJob ==
    \/ StartExtraction \/ RunStart \/ RunNoJob \/ Authenticated \/ SubmissionFetched
    \/ CommentsFetched \/ RunFails \/ ExtractFails \/ StreamProgress \/ Poll \/ Shutdown

SpecJob == InitJob /\ [][NextJob]_vars

\* ------------------------------------- _rate_limit called from two threads
\* Two threads of one process call _rate_limit (and make their outbound
\* call) on the same client instance.  The method takes no lock: reading
\* the clock and last_request_time, sleeping, and writing last_request_time
\* are separate steps of each thread.
limOutside == <<accVars, walkVars, fetchVars, gateVars, cbVars, qaVars, jobVars, runs>>

InitLimiter ==
    /\ FetchIdle /\ GateOff /\ CallbackOff /\ QAOff /\ JobOff /\ ModesOff
    /\ mode \in {"auth", "public"}
    /\ now = 0
    /\ last_request_time \in {0 - MaxClock, 0}    \* no call yet, or one just made
    /\ caller = [t \in Threads |-> IdleCaller]

\* elapsed = time.time() - self.last_request_time, and the sleep decided.
Measure ==
    \E t \in Threads :
       /\ caller[t].pc = "idle"
       /\ caller' = [caller EXCEPT
             ![t].pc = "measured",
             ![t].read = last_request_time,
             ![t].wake = now + SleepNeeded(MinInterval(mode), now - last_request_time)]
       /\ UNCHANGED <<now, last_request_time, limOutside>>

\* The sleep (if any) is over: self.last_request_time = time.time(), and
\* the outbound call follows.
Record ==
    \E t \in Threads :
       /\ caller[t].pc = "measured"
       /\ now >= caller[t].wake
       /\ last_request_time' = now
       /\ caller' = [caller EXCEPT ![t].pc = "called", ![t].called = now]
       /\ UNCHANGED <<now, limOutside>>

\* The clock advances.
ClockTick ==
    /\ now < MaxClock
    /\ now' = now + 1
    /\ UNCHANGED <<last_request_time, caller, limOutside>>

NextLimiter == Measure \/ Record \/ ClockTick

SpecLimiter == InitLimiter /\ [][NextLimiter]_vars

\* ------------------------------------- one job of the service with its fetch
\* The run_extraction task of one job, with the get_all_comments it awaits
\* modelled by the steps of the authenticated fetch (server.py builds a
\* RedditClient).  The job was created by one start_extraction.
InitRun ==
    /\ FetchOff /\ GateOff /\ CallbackOff /\ QAOff /\ LimiterOff /\ ModesOff
    /\ server_up = TRUE
    /\ jobs = {1}
    /\ status = [j \in JobIds |-> IF j = 1 THEN "pending" ELSE "absent"]
    /\ percent = [j \in JobIds |-> 0]
    /\ result = [j \in JobIds |-> "null"]
    /\ error = [j \in JobIds |-> "null"]
    /\ task = [j \in JobIds |-> IF j = 1 THEN "created" ELSE "none"]
    /\ reader = [r \in Readers |-> NoReader]
    /\ started = [j \in JobIds |-> IF j = 1 THEN 1 ELSE 0]
    /\ client = [j \in JobIds |-> 0]
    /\ instances = 0

\* client.authenticate or client.get_submission raised in the executor.
RunEarlyFails ==
    \E job_id \in JobIds :
       /\ task[job_id] \in {"authenticate", "get_submission"}
       /\ status' = [status EXCEPT ![job_id] = "error"]
       /\ error' = [error EXCEPT ![job_id] = "set"]
       /\ task' = [task EXCEPT ![job_id] = "returned"]
       /\ UNCHANGED <<jobs, percent, result, server_up, reader, jobOutside,
                      started, client, instances>>

\* get_submission returned: fetch_comments_with_progress sends
\* client.get_all_comments to the executor.
FetchBegins ==
    \E job_id \in JobIds :
       /\ task[job_id] = "get_submission"
       /\ pc = "idle"
       /\ percent' = [percent EXCEPT ![job_id] = 20]
       /\ task' = [task EXCEPT ![job_id] = "get_all_comments"]
       /\ pc' = "start"
       /\ UNCHANGED <<jobs, status, result, error, server_up, reader, started, client,
                      instances, accVars, walkVars, mode, batch, expansions_done, requests,
                      outcome, redelivered, grew, attached, gateVars, cbVars, qaVars,
                      limVars, runs>>

\* get_all_comments returned: submission.comments = comments, the pairs
\* are extracted, the result is stored, the status becomes "complete".
FetchReturns ==
    \E job_id \in JobIds :
       /\ task[job_id] = "get_all_comments"
       /\ pc = "done"
       /\ attached' = [assigned |-> TRUE, comments |-> comments]
       /\ percent' = [percent EXCEPT ![job_id] = 100]
       /\ result' = [result EXCEPT ![job_id] = "set"]
       /\ status' = [status EXCEPT ![job_id] = "complete"]
       /\ task' = [task EXCEPT ![job_id] = "returned"]
       /\ pc' = "returned"
       /\ UNCHANGED <<jobs, error, server_up, reader, started, client, instances,
                      accVars, walkVars, mode, batch, expansions_done, requests, outcome,
                      redelivered, grew, gateVars, cbVars, qaVars, limVars, runs>>

\* get_all_comments raised (its listing request failed): except Exception
\* sets status and error.
FetchRaises ==
    \E job_id \in JobIds :
       /\ task[job_id] = "get_all_comments"
       /\ pc = "raised"
       /\ status' = [status EXCEPT ![job_id] = "error"]
       /\ error' = [error EXCEPT ![job_id] = "set"]
       /\ task' = [task EXCEPT ![job_id] = "returned"]
       /\ UNCHANGED <<jobs, percent, result, server_up, reader, jobOutside,
                      started, client, instances>>

NextRun ==
    \/ RunStart \/ Authenticated \/ RunEarlyFails \/ FetchBegins
    \/ ListingOk \/ ListingShort \/ ListingRaise
    \/ TakeBatch \/ ExpandThings \/ ExpandNoData \/ ExpandFail \/ ReturnComments
    \/ FetchReturns \/ FetchRaises

SpecRun == InitRun /\ [][NextRun]_vars

\* The task is resumed when the call it awaits has ended, and every request
\* of the fetch returns (with a body or an exception).
FairSpecRun == SpecRun /\ WF_vars(NextRun)

\* ------------------------------------------- the two clients side by side
\* One get_all_comments of RedditClient and one of PublicRedditClient for
\* the same submission, as functions of the answers.  The remote answers
\* every request with status 200 and gives the same answer to the k-th
\* request of either client; a run is a record of the locals of the
\* method, with the number of batches it has sent in issued.
RunAcc(run) ==
    [comments |-> run.comments, more_ids |-> run.more_ids, fetched_ids |-> run.fetched_ids]

WithAcc(run, out) ==
    [run EXCEPT !.comments = out.comments, !.more_ids = out.more_ids,
                !.fetched_ids = out.fetched_ids]

\* if len(response) > 1: walk response[1]["data"]["children"].
RunListing(run, children) ==
    [WithAcc(run, ProcessCommentListing(children, RunAcc(run))) EXCEPT !.pc = "loop"]

\* while more_ids [and expansions_done < max_expansions]
RunContinues(m, run) ==
    /\ run.more_ids # <<>>
    /\ (m = "public" => run.expansions_done < MaxExpansions)

\* batch = more_ids[:100]; more_ids = more_ids[100:]; send it; or return.
RunTake(m, run) ==
    IF RunContinues(m, run)
    THEN LET n == Min(BatchSize, Len(run.more_ids))
         IN [run EXCEPT !.batch = SubSeq(run.more_ids, 1, n),
                        !.more_ids = SubSeq(run.more_ids, n + 1, Len(run.more_ids)),
                        !.issued = @ + 1,
                        !.pc = "expanding"]
    ELSE [run EXCEPT !.pc = "done"]

\* RunThings with a public client that counts the batch without walking it.
RunThingsPublicUnwalked(m, run, things) ==
    [(IF m = "public" THEN run
      ELSE WithAcc(run, ProcessCommentListing(things, RunAcc(run))))
        EXCEPT !.expansions_done = IF m = "public" THEN @ + 1 ELSE @,
               !.batch = <<>>,
               !.pc = "loop"]

\* 200 with json.data.things: walk them; the public client counts the batch.
RunThings(m, run, things) ==
    [WithAcc(run, ProcessCommentListing(things, RunAcc(run)))
        EXCEPT !.expansions_done = IF m = "public" THEN @ + 1 ELSE @,
               !.batch = <<>>,
               !.pc = "loop"]

\* 200 without json.data: nothing is walked or counted.
RunNoData(run) == [run EXCEPT !.batch = <<>>, !.pc = "loop"]

InitModes ==
    /\ FetchOff /\ GateOff /\ CallbackOff /\ QAOff /\ JobOff /\ LimiterOff
    /\ runs = [m \in Modes |-> [IdleRun EXCEPT !.pc = "start"]]

\* Both listing requests are answered with the same comment listing.
ModesListingOk ==
    /\ \A m \in Modes : runs[m].pc = "start"
    /\ \E children \in ServerListings :
          runs' = [m \in Modes |-> RunListing(runs[m], children)]
    /\ UNCHANGED <<accVars, walkVars, fetchVars, gateVars, cbVars, qaVars, jobVars, limVars>>

\* Both listing requests are answered with a one-element body.
ModesListingShort ==
    /\ \A m \in Modes : runs[m].pc = "start"
    /\ runs' = [m \in Modes |-> [runs[m] EXCEPT !.pc = "loop"]]
    /\ UNCHANGED <<accVars, walkVars, fetchVars, gateVars, cbVars, qaVars, jobVars, limVars>>

\* Each client that stands at its while condition evaluates it.
ModesLoop ==
    /\ \E m \in Modes : runs[m].pc = "loop"
    /\ \A m \in Modes : runs[m].issued <= MaxExpansions
    /\ runs' = [m \in Modes |->
                   IF runs[m].pc = "loop" THEN RunTake(m, runs[m]) ELSE runs[m]]
    /\ UNCHANGED <<accVars, walkVars, fetchVars, gateVars, cbVars, qaVars, jobVars, limVars>>

\* The expansion requests in flight are answered with the same things.
ModesThings ==
    /\ \E m \in Modes : runs[m].pc = "expanding"
    /\ \E things \in ServerListings :
          /\ runs' = [m \in Modes |->
                         IF runs[m].pc = "expanding"
                         THEN RunThings(m, runs[m], things) ELSE runs[m]]
          /\ \A m \in Modes : Len(runs'[m].more_ids) <= MaxPending
    /\ UNCHANGED <<accVars, walkVars, fetchVars, gateVars, cbVars, qaVars, jobVars, limVars>>

\* The expansion requests in flight are answered without json.data.
ModesNoData ==
    /\ \E m \in Modes : runs[m].pc = "expanding"
    /\ runs' = [m \in Modes |->
                   IF runs[m].pc = "expanding" THEN RunNoData(runs[m]) ELSE runs[m]]
    /\ UNCHANGED <<accVars, walkVars, fetchVars, gateVars, cbVars, qaVars, jobVars, limVars>>

NextModes ==
    \/ ModesListingOk \/ ModesListingShort \/ ModesLoop \/ ModesThings \/ ModesNoData

SpecModes == InitModes /\ [][NextModes]_vars

\* ------------------------------------------------------------------ claims

\* C1: after any sequence of walker calls within one fetch, in either
\* client, no two Comments of the flat collection have the same id.
C1_NoDuplicateIds == Distinct(IdsOf(comments))

\* A comment came again (in a later response or twice in one listing) after
\* at least one expansion, and the collection is not empty.
C1_Witness == redelivered /\ requests >= 1 /\ outcome = "ok" /\ Len(comments) >= 1

\* C2: no expansion request carries an id that is in the seen set at the
\* moment the request is issued.
C2_NeverRefetched ==
    (mode = "auth" /\ pc = "expanding") => Range(batch) \cap fetched_ids = {}

\* C3 as stated: every tree without "more" nodes, walked with empty
\* accumulators, yields as many comments as it has comment nodes, with no
\* duplicate ids.
C3_Premise == w_pc = "walked" /\ w_before = EmptyAcc /\ ~HasMore(w_input)

C3_Original ==
    C3_Premise =>
        /\ Len(comments) = CountComments(w_input)
        /\ Distinct(IdsOf(comments))

\* C3 amended: the same, for the trees whose comment nodes carry non-empty,
\* pairwise distinct ids.
C3_DistinctTree ==
    (C3_Premise /\ Distinct(CommentIds(w_input)) /\ NoId \notin Range(CommentIds(w_input)))
        => /\ Len(comments) = CountComments(w_input)
           /\ Distinct(IdsOf(comments))
           /\ IdsOf(comments) = CommentIds(w_input)

\* A nested tree of two distinct comments has been walked.
C3_Witness ==
    /\ C3_Premise
    /\ Distinct(CommentIds(w_input)) /\ NoId \notin Range(CommentIds(w_input))
    /\ Len(w_input) = 1 /\ Len(w_input[1].replies) = 1
    /\ Len(comments) = 2

\* C4 as stated: in authenticated mode the expansion loop terminates for
\* every sequence of server responses, with an empty pending queue.
C4_Original ==
    (mode = "auth") => <>(Returned /\ (pc # "raised" => more_ids = <<>>))

\* C4 amended: the authenticated loop has no batch cap and returns only
\* with an empty pending queue; it terminates in every run in which only
\* finitely many responses add pending markers.
C4_RunsToExhaustion ==
    /\ []((mode = "auth" /\ pc \in {"done", "returned"}) => more_ids = <<>>)
    /\ ((mode = "auth") => (<>Returned \/ []<>grew))

\* The authenticated fetch returned after more batches than the public cap.
C4_Witness ==
    mode = "auth" /\ pc = "done" /\ requests > MaxExpansions /\ more_ids = <<>>

\* C5: the public fetch issues at most max_expansions expansion requests,
\* whatever the server answers.
C5_AtMostCapRequests == (mode = "public") => requests <= MaxExpansions

\* C8: when the initial listing request ends in an error the fetch is
\* aborted: the error propagates, no expansion request is issued, nothing
\* is returned or attached to the Submission.
C8_ListingErrorAborts ==
    (outcome = "error") =>
        /\ pc = "raised"
        /\ requests = 0 /\ batch = <<>>
        /\ comments = <<>>
        /\ attached = Unset

\* The listing request of a fetch has raised.
C8_Witness == pc = "raised" /\ outcome = "error"

\* C10: in authenticated mode a failed expansion batch is not fatal: the
\* fetch does not raise, the accumulated comments are kept, the loop goes
\* on, and the failed ids are not put back in the queue.
C10_FailedBatchDropped ==
    /\ []((mode = "auth" /\ requests >= 1) => pc # "raised")
    /\ [][(mode = "auth" /\ pc = "expanding" /\ outcome' = "failed") =>
            /\ pc' = "loop"
            /\ comments' = comments
            /\ fetched_ids' = fetched_ids
            /\ more_ids' = more_ids]_vars

\* After a failed batch the next batch is in flight, comments kept.
C10_Witness ==
    mode = "auth" /\ outcome = "failed" /\ pc = "expanding" /\ Len(comments) >= 1

\* C6 as stated: a 429 is waited out and the request re-issued exactly once
\* more; one execute call causes at most one retry, and a second 429
\* propagates to the caller.
C6_AtMostOneRetry ==
    (g_pc # "off" /\ ViaRequest) =>
        /\ sent <= 2
        /\ (n429 >= 2 => (g_pc = "idle" /\ g_result = "error"))

\* C6 amended: each 429 answered to _request is waited out (Retry-After, 60
\* when absent) and followed by one re-issue under the same contract, so
\* the request has been sent once per 429 received plus once; any other
\* failure of a re-issued call ends the request.
C6_RetryPer429 ==
    g_pc # "off" =>
        /\ (n429 >= 1 => ViaRequest)
        /\ (n429 >= 1 => slept = (IF hdr = NoHeader THEN DefaultRetryAfter ELSE hdr))
        /\ ((n429 >= 1 /\ g_pc = "ready") => elapsed >= Min(slept, Horizon))
        /\ (g_pc = "ready" => sent = n429)
        /\ (g_pc = "sent" => sent = n429 + 1)
        /\ ((g_pc = "idle" /\ g_result \in {"ok", "error", "break"}) => sent = n429 + 1)

\* Two 429 answers in a row, the second without a Retry-After header, and
\* the request is out for the third time.
C6_Witness ==
    g_pc = "sent" /\ n429 = 2 /\ sent = 3 /\ hdr = NoHeader /\ slept = DefaultRetryAfter

\* C7: an answer whose status is neither 200 nor 429 makes _request raise,
\* and the request is not re-issued: it was the last network call made for it.
C7_ErrorNotRetried ==
    (g_pc # "off" /\ ViaRequest /\ g_status \notin {0, 200, 429}) =>
        /\ g_pc = "idle"
        /\ g_result = "error"
        /\ sent = n429 + 1

\* A first answer of status 500: raised after exactly one network call.
C7_Witness ==
    ViaRequest /\ g_status = 500 /\ g_result = "error" /\ n429 = 0 /\ sent = 1

\* C9: every outbound call (listing, expansion, 429 re-issue) passes
\* _rate_limit first, so two consecutive calls of one client are at least
\* min_request_interval apart and the recorded call time never runs ahead
\* of the clock.
C9_MinSpacing ==
    g_pc # "off" =>
        /\ (g_calls >= 2 => gap >= MinInterval(mode))
        /\ elapsed \in 0..Horizon

\* A public expansion call went out exactly the minimum interval after the
\* call before it.
C9_Witness ==
    /\ mode = "public" /\ g_kind = "expand" /\ g_pc = "sent"
    /\ g_calls >= 2 /\ gap = MinInterval(mode)

\* C11: in public mode an expansion failure (non-200 status, 429 included,
\* or an exception) ends the expansion loop at once: the fetch returns the
\* comments it has, without raising, issues no further request and leaves
\* the remaining pending markers unresolved.
C11_PublicFailureBreaks ==
    /\ [][(mode = "public" /\ pc = "expanding" /\ outcome' = "failed") =>
            /\ pc' = "done"
            /\ comments' = comments
            /\ more_ids' = more_ids]_vars
    /\ [][(mode = "public" /\ pc = "done") =>
            /\ pc' = "done"
            /\ requests' = requests /\ batch' = batch
            /\ comments' = comments]_vars
    /\ []((mode = "public" /\ requests >= 1) => pc # "raised")

\* A public fetch ended by a failed batch below the cap, with comments
\* collected and markers still pending.
C11_Witness ==
    /\ mode = "public" /\ pc = "done" /\ outcome = "failed"
    /\ more_ids # <<>> /\ Len(comments) >= 1 /\ expansions_done < MaxExpansions

\* C12 as stated: a supplied callback is invoked after each expansion batch
\* with the actual sizes of the comment collection and of the pending
\* queue.
C12_Original ==
    (progress_callback # "none" /\ pc = "loop" /\ requests <= MaxExpansions) =>
        /\ cb_calls = requests + 1
        /\ cb_args = <<Len(comments), Len(more_ids)>>

\* C12 amended: the callback of the public fetch is invoked once after the
\* initial listing and once after each expansion batch answered 200 with
\* json.data (the counted batches), with the sizes of the two accumulators
\* at that moment; its first argument never decreases.
C12_AfterCountedBatch ==
    /\ []((progress_callback # "none" /\ pc \in {"loop", "expanding", "done"}) =>
            cb_calls = expansions_done + 1)
    /\ []((progress_callback # "none" /\ pc = "start") => cb_calls = 0)
    /\ [][cb_calls' # cb_calls =>
            /\ cb_calls' = cb_calls + 1
            /\ cb_args' = <<Len(comments'), Len(more_ids')>>
            /\ cb_args'[1] >= cb_args[1]]_vars

\* Two invocations after two batches, one of them answered without
\* json.data, and the callback has seen comments and pending markers.
C12_Witness ==
    /\ progress_callback = "ok" /\ pc = "loop"
    /\ requests = 2 /\ expansions_done = 1 /\ cb_calls = 2
    /\ cb_args[1] >= 1 /\ cb_args[2] >= 1

\* C13: a failure of the callback is not guarded against: whichever
\* invocation raises, the exception leaves the fetch as a fatal error.
C13_CallbackFailureFatal == cb_raised => pc = "raised"

\* A run of the correlator has returned.
Extracted == qa_pc \in {"extracted", "again"}

\* The comment is by one of the target authors, letter case apart.
ByTarget(c) ==
    \E k \in 1..Len(answer_authors) : Lower(c.author) = Lower(answer_authors[k])

\* The ids of a result: per group the question id and the answer ids.
Shape(pairs) ==
    [k \in 1..Len(pairs) |->
        [question |-> pairs[k].question.id, answers |-> IdsOf(pairs[k].answers)]]

\* C14: a result of extract_qa_pairs holds at most one QAGroup per
\* question id, however many answers reply to the question and wherever
\* they stand in the input.
C14_OneGroupPerQuestion ==
    Extracted => Distinct([k \in 1..Len(qa_pairs) |-> qa_pairs[k].question.id])

\* Two answers to one question, which stands between them in the input.
C14_Witness ==
    /\ Extracted /\ Len(qa_pairs) = 1
    /\ qa_pairs[1].question.id = 2
    /\ IdsOf(qa_pairs[1].answers) \in {<<1, 3>>, <<3, 1>>}

\* C15: in a result the groups ascend by the creation time of their
\* question and the answers of each group ascend by creation time,
\* whatever the order of the input.
C15_Ascending ==
    Extracted =>
        /\ \A k \in 1..(Len(qa_pairs) - 1) :
              qa_pairs[k].question.created_utc <= qa_pairs[k + 1].question.created_utc
        /\ \A g \in 1..Len(qa_pairs) : \A k \in 1..(Len(qa_pairs[g].answers) - 1) :
              qa_pairs[g].answers[k].created_utc <= qa_pairs[g].answers[k + 1].created_utc

\* Two groups that the loop collected in the other order: the group
\* collected first has the later question and came out second.
C15_Witness ==
    /\ qa_pc = "extracted" /\ Len(qa_pairs) = 2
    /\ qa_pairs[1].question.created_utc < qa_pairs[2].question.created_utc
    /\ Collected(submission_comments, answer_authors, include_deleted)[1].question.id
          = qa_pairs[2].question.id

\* The input with the target-author replies to the submission given to
\* another author.
WithoutTopLevel(cs) ==
    [k \in 1..Len(cs) |->
        IF cs[k].parent_id.prefix = "t3_" /\ ByTarget(cs[k])
        THEN [cs[k] EXCEPT !.author = "eve"]
        ELSE cs[k]]

\* C16: a target-author comment whose parent is the submission is an
\* answer of no group and creates no group: every answer replies to the
\* question of its group, and the groups are those of the input without
\* such comments as answers.
C16_TopLevelNeverAnswer ==
    Extracted =>
        /\ \A g \in 1..Len(qa_pairs) :
              /\ Len(qa_pairs[g].answers) >= 1
              /\ \A k \in 1..Len(qa_pairs[g].answers) :
                    /\ qa_pairs[g].answers[k].parent_id.prefix # "t3_"
                    /\ qa_pairs[g].answers[k].parent_id.rest = qa_pairs[g].question.id
        /\ Shape(qa_pairs) =
              Shape(ExtractQAPairs(WithoutTopLevel(submission_comments), answer_authors,
                                   include_deleted))

\* A target author replied to the submission, and that comment is the
\* question of the only group.
C16_Witness ==
    /\ Extracted /\ Len(qa_pairs) = 1
    /\ ByTarget(qa_pairs[1].question)
    /\ qa_pairs[1].question.parent_id.prefix = "t3_"

SentinelBody(body) == body = "[deleted]" \/ body = "[removed]"

\* The input with the sentinel bodies replaced by ordinary text.
Undeleted(cs) ==
    [k \in 1..Len(cs) |-> IF SentinelBody(cs[k].body) THEN [cs[k] EXCEPT !.body = "text"]
                           ELSE cs[k]]

\* C17: without include_deleted a comment whose body is "[deleted]" or
\* "[removed]" is in no group, as question or as answer; with
\* include_deleted the groups are those the same comments would give with
\* ordinary bodies.
C17_DeletedHandling ==
    Extracted =>
        /\ ~include_deleted =>
              \A g \in 1..Len(qa_pairs) :
                 /\ ~SentinelBody(qa_pairs[g].question.body)
                 /\ \A k \in 1..Len(qa_pairs[g].answers) :
                       ~SentinelBody(qa_pairs[g].answers[k].body)
        /\ include_deleted =>
              Shape(qa_pairs) =
                 Shape(ExtractQAPairs(Undeleted(submission_comments), answer_authors, FALSE))

\* Without include_deleted: a removed reply to the question of the only
\* group was dropped, and so was a reply to that removed comment.
C17_Witness ==
    /\ Extracted /\ ~include_deleted /\ Len(qa_pairs) = 1
    /\ Len(qa_pairs[1].answers) = 1
    /\ \E k \in 1..Len(submission_comments) :
          /\ ByTarget(submission_comments[k])
          /\ submission_comments[k].body = "[removed]"
          /\ submission_comments[k].parent_id =
                [prefix |-> "t1_", rest |-> qa_pairs[1].question.id]
          /\ \E j \in 1..Len(submission_comments) :
                /\ ByTarget(submission_comments[j])
                /\ submission_comments[j].body = "text"
                /\ submission_comments[j].parent_id =
                      [prefix |-> "t1_", rest |-> submission_comments[k].id]

StatusMoves ==
    {<<"absent", "pending">>, <<"pending", "running">>,
     <<"running", "complete">>, <<"running", "error">>}

\* C19: the status of a job only moves pending -> running -> complete or
\* error: never backwards, never to complete or error from anything but
\* running, never away from complete or error, whatever the interleaving
\* of the tasks and the progress streams.
C19_StatusMonotonic ==
    [][\A job_id \in JobIds :
          status'[job_id] # status[job_id] =>
             <<status[job_id], status'[job_id]>> \in StatusMoves]_vars

\* One job is complete and the other failed, and a progress stream saw
\* the complete one while it was still running and has not polled since.
C19_Witness ==
    /\ status[1] = "complete" /\ status[2] = "error"
    /\ \E r \in Readers :
          /\ reader[r].job = 1 /\ reader[r].pc = "open"
          /\ reader[r].seen.status = "running"

\* C20: two threads that call the gate of one client instance
\* concurrently never compute their wait from the same last-call time, and
\* their two outbound calls are at least the minimum interval apart.
C20_ConcurrentCallsSpaced ==
    (\A t \in Threads : caller[t].pc = "called") =>
        /\ caller[1].read # caller[2].read
        /\ \/ caller[1].called - caller[2].called >= MinInterval(mode)
           \/ caller[2].called - caller[1].called >= MinInterval(mode)

\* ----------------------------------------------------------------------
\* The pairs <<id of a comment node, id of a comment node directly in its
\* replies>> of a listing, at every depth.
RECURSIVE ReplyEdges(_)
ReplyEdges(l) ==
    IF l = <<>> THEN {}
    ELSE (IF Head(l).kind = "t1"
          THEN {<<Head(l).id, Head(l).replies[k].id>> :
                   k \in {j \in 1..Len(Head(l).replies) : Head(l).replies[j].kind = "t1"}}
               \cup ReplyEdges(Head(l).replies)
          ELSE {})
         \cup ReplyEdges(Tail(l))

\* The walk of children from acc, thing by thing: a comment node that is
\* added stands at the first free index, before everything the walk of its
\* replies adds, and the same holds within its replies.
RECURSIVE ParentFirst(_, _)
ParentFirst(children, acc) ==
    IF children = <<>> THEN TRUE
    ELSE LET thing == Head(children)
             after == ProcessThing(thing, acc)
             index == Len(acc.comments) + 1
             added == /\ thing.kind = "t1" /\ thing.id # NoId
                      /\ thing.id \notin acc.fetched_ids
             with == [acc EXCEPT !.fetched_ids = @ \cup {thing.id},
                                 !.comments = Append(@, Comment(thing))]
         IN /\ added =>
                  /\ Len(after.comments) >= index
                  /\ SubSeq(after.comments, 1, index) = with.comments
                  /\ ParentFirst(thing.replies, with)
            /\ ParentFirst(Tail(children), after)

PositionOf(id) == CHOOSE k \in 1..Len(comments) : comments[k].id = id

FreshTree ==
    /\ Distinct(CommentIds(w_input))
    /\ NoId \notin Range(CommentIds(w_input))
    /\ Range(CommentIds(w_input)) \cap w_before.fetched_ids = {}

\* C24: the walker appends a comment node before it walks the node's
\* replies, so every comment added from the reply listing of a node has a
\* larger index in the flat collection than the node itself; in a walked
\* tree of fresh, distinct ids every parent stands before each of its
\* replies.
C24_ParentBeforeChild ==
    (w_pc = "walked") =>
        /\ ParentFirst(w_input, w_before)
        /\ FreshTree =>
              \A e \in ReplyEdges(w_input) :
                  /\ e[1] \in fetched_ids /\ e[2] \in fetched_ids
                  /\ PositionOf(e[1]) < PositionOf(e[2])

\* A comment with one reply, both fresh, has been walked behind a comment
\* list that was empty: the parent is first, the reply second.
C24_Witness ==
    /\ w_pc = "walked" /\ FreshTree
    /\ Len(w_input) = 1 /\ w_input[1].kind = "t1"
    /\ Len(w_input[1].replies) = 1 /\ w_input[1].replies[1].kind = "t1"
    /\ IdsOf(comments) = <<w_input[1].id, w_input[1].replies[1].id>>

\* The child ids of a "more" node that are not in seen, in the node's
\* order; with nonempty, only the non-empty ones.
RECURSIVE Unseen(_, _, _)
Unseen(children_ids, seen, nonempty) ==
    IF children_ids = <<>> THEN <<>>
    ELSE (IF Head(children_ids) \notin seen /\ (nonempty => Head(children_ids) # NoId)
          THEN <<Head(children_ids)>> ELSE <<>>)
         \o Unseen(Tail(children_ids), seen, nonempty)

\* The walk of children from acc, thing by thing: every "more" node that
\* is visited appends its unseen child ids to the pending queue and leaves
\* the flat collection and the seen set alone.
RECURSIVE MoreNodesAppend(_, _, _)
MoreNodesAppend(children, acc, nonempty) ==
    IF children = <<>> THEN TRUE
    ELSE LET thing == Head(children)
             after == ProcessThing(thing, acc)
             added == /\ thing.kind = "t1" /\ thing.id # NoId
                      /\ thing.id \notin acc.fetched_ids
             with == [acc EXCEPT !.fetched_ids = @ \cup {thing.id},
                                 !.comments = Append(@, Comment(thing))]
         IN /\ thing.kind = "more" =>
                  /\ after.more_ids =
                         acc.more_ids \o Unseen(thing.children, acc.fetched_ids, nonempty)
                  /\ after.comments = acc.comments
                  /\ after.fetched_ids = acc.fetched_ids
            /\ added => MoreNodesAppend(thing.replies, with, nonempty)
            /\ MoreNodesAppend(Tail(children), after, nonempty)

\* The listing that was walked is one "more" node.
OneMoreNode == Len(w_input) = 1 /\ w_input[1].kind = "more"

\* C25 as stated: a "more" node appends to the pending queue exactly those
\* of its child ids that are not in the seen set when the node is visited,
\* in the node's order, and adds nothing to the flat collection or the
\* seen set.
C25_Original ==
    (w_pc = "walked") =>
        /\ MoreNodesAppend(w_input, w_before, FALSE)
        /\ OneMoreNode =>
              /\ more_ids = w_before.more_ids
                               \o Unseen(w_input[1].children, w_before.fetched_ids, FALSE)
              /\ comments = w_before.comments
              /\ fetched_ids = w_before.fetched_ids

\* C25 amended: the same for the non-empty child ids; an empty child id is
\* skipped although it is not in the seen set, and an id of the seen set
\* is never appended.
C25_MoreNodeAppendsUnseen ==
    (w_pc = "walked") =>
        /\ MoreNodesAppend(w_input, w_before, TRUE)
        /\ OneMoreNode =>
              /\ more_ids = w_before.more_ids
                               \o Unseen(w_input[1].children, w_before.fetched_ids, TRUE)
              /\ comments = w_before.comments
              /\ fetched_ids = w_before.fetched_ids
              /\ \A k \in Len(w_before.more_ids) + 1 .. Len(more_ids) :
                     more_ids[k] \notin fetched_ids

\* A listing of a comment and a "more" node that names that comment and an
\* unseen id has been walked: only the unseen id joined the queue.
C25_Witness ==
    /\ w_pc = "walked"
    /\ Len(w_input) = 2 /\ w_input[1].kind = "t1" /\ w_input[2].kind = "more"
    /\ Len(w_input[2].children) = 2
    /\ w_input[2].children[1] = w_input[1].id
    /\ w_input[2].children[1] \in fetched_ids
    /\ w_input[2].children[2] \notin fetched_ids \cup {NoId}
    /\ more_ids = w_before.more_ids \o <<w_input[2].children[2]>>

\* C26: walking a listing all of whose comment ids are already in the
\* seen set appends no comment and leaves the seen set unchanged; so does
\* walking the same response a second time.
C26_IdempotentReentry ==
    /\ (w_pc \in {"walked", "rewalked"}
            /\ Range(CommentIds(w_input)) \subseteq w_before.fetched_ids)
         => (comments = w_before.comments /\ fetched_ids = w_before.fetched_ids)
    /\ (w_pc = "rewalked")
         => (comments = w_before.comments /\ fetched_ids = w_before.fetched_ids)

\* A response of two comments and a marker has been walked twice: the
\* second walk found both ids in the seen set and added nothing.
C26_Witness ==
    /\ w_pc = "rewalked"
    /\ CountComments(w_input) = 2 /\ HasMore(w_input)
    /\ Range(CommentIds(w_input)) \subseteq w_before.fetched_ids
    /\ Len(comments) >= 2
    /\ comments = w_before.comments

\* The seen set and the flat collection hold the same ids, once each.
SeenIsFlatIds ==
    /\ fetched_ids = Range(IdsOf(comments))
    /\ Cardinality(fetched_ids) = Len(comments)

\* A step only appends comments, and adds to the seen set exactly the ids
\* of the comments it appends.
AccumulatorsGrow ==
    /\ Len(comments') >= Len(comments)
    /\ SubSeq(comments', 1, Len(comments)) = comments
    /\ fetched_ids \subseteq fetched_ids'
    /\ fetched_ids' \ fetched_ids =
          {comments'[k].id : k \in Len(comments) + 1 .. Len(comments')}

\* C30: at every point of a fetch the seen set is exactly the set of the
\* ids of the comments of the flat collection, with the same cardinality;
\* an id enters the seen set only together with the append of its comment,
\* and neither accumulator ever loses an element.
C30_SeenIsFlatIds == []SeenIsFlatIds /\ [][AccumulatorsGrow]_vars

\* An expansion response has added comments to those of the listing.
C30_Witness ==
    /\ pc = "loop" /\ outcome = "ok" /\ requests >= 1
    /\ Len(comments) >= 2 /\ Cardinality(fetched_ids) = Len(comments)

\* A step that issues an expansion request.
TakesBatch == pc = "loop" /\ pc' = "expanding"

PublicUncut == runs["public"].pc # "done" \/ runs["public"].more_ids = <<>>

SameRun(a, p) ==
    /\ a.pc = p.pc /\ a.issued = p.issued /\ a.batch = p.batch
    /\ a.comments = p.comments /\ a.more_ids = p.more_ids
    /\ a.fetched_ids = p.fetched_ids

\* C21: fed the same answers, all of status 200, the two clients stand at
\* the same place with the same batch in flight, the same number of
\* batches sent and the same comments in the same order, at every step
\* until the cap of the public client cuts its loop; when fewer than
\* MaxExpansions batches were needed both return the same comment list
\* after the same batches.
C21_ModesAgree ==
    /\ PublicUncut => SameRun(runs["auth"], runs["public"])
    /\ (runs["auth"].pc = "done" /\ runs["auth"].issued < MaxExpansions) =>
           /\ runs["public"].pc = "done"
           /\ runs["public"].issued = runs["auth"].issued
           /\ runs["public"].comments = runs["auth"].comments

\* Both clients have returned two or more comments after at least one
\* batch and fewer batches than the cap.
C21_Witness ==
    /\ runs["auth"].pc = "done" /\ runs["public"].pc = "done"
    /\ runs["auth"].issued >= 1 /\ runs["auth"].issued < MaxExpansions
    /\ Len(runs["public"].comments) >= 2

\* The task of a job id has a call of its client in the executor.
InFlight(job_id) == task[job_id] \in {"authenticate", "get_submission", "get_all_comments"}

\* C29: every job id is given out once and gets exactly one
\* run_extraction task, so at most one fetch is in flight per job id, and
\* the fetches of different jobs use different client instances, each
\* built by the task that uses it.
C29_OneFetchPerJob ==
    /\ \A job_id \in JobIds :
          /\ started[job_id] = IF status[job_id] = "absent" THEN 0 ELSE 1
          /\ InFlight(job_id) => (started[job_id] = 1 /\ client[job_id] # 0)
          /\ client[job_id] <= instances
    /\ \A j, k \in JobIds :
          (j # k /\ client[j] # 0 /\ client[k] # 0) => client[j] # client[k]

\* The fetches of two jobs are in flight together, each with its client.
C29_Witness ==
    /\ task[1] = "get_all_comments" /\ task[2] = "get_all_comments"
    /\ client[1] = 2 /\ client[2] = 1
    /\ instances = 2

\* The spellings of a name in other letter cases.
CaseVariants(a) ==
    CASE a \in {"Bob", "bob", "BOB"} -> {"Bob", "bob", "BOB"}
      [] a \in {"eve", "Eve", "EVE"} -> {"eve", "Eve", "EVE"}
      [] OTHER -> {a}

\* C27: changing the letter case of one entry of the target author list,
\* or of the author of one comment, does not change the groups of the
\* result (their questions and answers, by id and in order).
C27_CaseInsensitive ==
    (qa_pc = "extracted") =>
        /\ \A k \in 1..Len(submission_comments) :
              \A v \in CaseVariants(submission_comments[k].author) :
                 Shape(ExtractQAPairs([submission_comments EXCEPT ![k].author = v],
                                      answer_authors, include_deleted))
                    = Shape(qa_pairs)
        /\ \A i \in 1..Len(answer_authors) :
              \A v \in CaseVariants(answer_authors[i]) :
                 Shape(ExtractQAPairs(submission_comments,
                                      [answer_authors EXCEPT ![i] = v], include_deleted))
                    = Shape(qa_pairs)

\* A group holds an answer whose author is spelled in the comment as in no
\* entry of the target list, which itself is not all in lower case.
C27_Witness ==
    /\ qa_pc = "extracted" /\ Len(qa_pairs) = 1
    /\ qa_pairs[1].answers[1].author = "Bob"
    /\ answer_authors = <<"BOB", "Eve">>

\* The parent reference of the comment is no comment reference and not the
\* submission reference.
MalformedParent(c) == c.parent_id.prefix \notin {"t1_", "t3_"}

\* The parent reference of the comment names a comment that is not in cs.
AbsentParent(c, cs) ==
    /\ c.parent_id.prefix = "t1_"
    /\ c.parent_id.rest \notin {cs[k].id : k \in 1..Len(cs)}

\* The comment is by an author of the target list, letter case apart.
TargetAuthor(c) ==
    \E i \in 1..Len(answer_authors) : answer_authors[i] \in CaseVariants(c.author)

\* The input with the target-author comments that have a malformed or
\* absent parent given no author.
WithoutOrphans(cs) ==
    [k \in 1..Len(cs) |->
        IF TargetAuthor(cs[k]) /\ (MalformedParent(cs[k]) \/ AbsentParent(cs[k], cs))
        THEN [cs[k] EXCEPT !.author = ""]
        ELSE cs[k]]

\* C28: the correlator has a result on every collection (a list of at
\* most as many groups as there are comments), and a target-author comment
\* whose parent reference is malformed or names an absent comment is an
\* answer of no group and creates none: the groups are those of the input
\* in which these comments have no target author.
C28_OrphansSkipped ==
    /\ (qa_pc = "ready") =>
          \A include \in BOOLEAN :
             Len(ExtractQAPairs(submission_comments, answer_authors, include))
                <= Len(submission_comments)
    /\ Extracted =>
          /\ \A g \in 1..Len(qa_pairs) : \A a \in 1..Len(qa_pairs[g].answers) :
                /\ ~MalformedParent(qa_pairs[g].answers[a])
                /\ ~AbsentParent(qa_pairs[g].answers[a], submission_comments)
          /\ Shape(qa_pairs)
                = Shape(ExtractQAPairs(WithoutOrphans(submission_comments),
                                       answer_authors, include_deleted))

\* A run has returned on two target-author comments, one with a malformed
\* parent reference that ends in the id of the other, one with a
\* reference to an absent comment: there is no group.
C28_Witness ==
    /\ qa_pc = "extracted" /\ Len(submission_comments) = 2
    /\ \A k \in 1..2 : TargetAuthor(submission_comments[k])
    /\ submission_comments[2].parent_id = [prefix |-> "t2_", rest |-> 1]
    /\ AbsentParent(submission_comments[1], submission_comments)
    /\ qa_pairs = <<>>

\* The job has reached one of its final statuses.
Ended(job_id) == status[job_id] \in {"complete", "error"}

Skipped(thing, acc) ==
    thing.kind = "t1" /\ (thing.id = NoId \/ thing.id \in acc.fetched_ids)

\* The walk of children from acc, thing by thing: a comment node that is
\* skipped leaves the three accumulators as they are, whatever stands in
\* its replies, and the same holds within the replies of the added ones.
RECURSIVE SkippedLeaveAlone(_, _)
SkippedLeaveAlone(children, acc) ==
    IF children = <<>> THEN TRUE
    ELSE LET thing == Head(children)
             after == ProcessThing(thing, acc)
             with == [acc EXCEPT !.fetched_ids = @ \cup {thing.id},
                                 !.comments = Append(@, Comment(thing))]
         IN /\ Skipped(thing, acc) => after = acc
            /\ (thing.kind = "t1" /\ ~Skipped(thing, acc)) =>
                  SkippedLeaveAlone(thing.replies, with)
            /\ SkippedLeaveAlone(Tail(children), after)

\* Every top-level node of the walked listing is a comment node with an
\* empty id or an id that was in the seen set before the walk.
AllSkipped ==
    \A k \in 1..Len(w_input) : Skipped(w_input[k], w_before)

\* C31: a comment node the walker skips (empty id, or id in the seen set)
\* is not descended into: the comments and markers under it are neither
\* added to the flat collection or the seen set nor queued, at any depth;
\* a listing of skipped nodes only leaves the accumulators unchanged.
C31_SkippedNotDescended ==
    (w_pc = "walked") =>
        /\ SkippedLeaveAlone(w_input, w_before)
        /\ AllSkipped => Acc = w_before

\* A comment whose id was seen has been walked; an unseen comment and a
\* marker stand in its replies, and nothing was added or queued.
C31_Witness ==
    /\ w_pc = "walked" /\ Len(w_input) = 1
    /\ w_input[1].kind = "t1" /\ w_input[1].id \in w_before.fetched_ids
    /\ Len(w_input[1].replies) = 2
    /\ w_input[1].replies[1].kind = "t1"
    /\ w_input[1].replies[1].id \notin fetched_ids \cup {NoId}
    /\ w_input[1].replies[2].kind = "more"
    /\ Acc = w_before

\* The record of every job, and what every progress stream last read of
\* it, has a result when complete, and an error message and no result when
\* in error.
ResultWithStatus ==
    /\ \A job_id \in JobIds :
          /\ status[job_id] = "complete" => result[job_id] = "set"
          /\ status[job_id] = "error" =>
                (error[job_id] = "set" /\ result[job_id] = "null")
    /\ \A r \in Readers :
          /\ reader[r].seen.status = "complete" => reader[r].seen.result = "set"
          /\ reader[r].seen.status = "error" =>
                (reader[r].seen.error = "set" /\ reader[r].seen.result = "null")

\* The result is written once, in the step that makes a running job
\* complete; the error message in the step that puts it in error.
ResultWrittenOnSuccess ==
    \A job_id \in JobIds :
       /\ result'[job_id] # result[job_id] =>
             /\ result[job_id] = "null"
             /\ status[job_id] = "running" /\ status'[job_id] = "complete"
       /\ error'[job_id] # error[job_id] =>
             /\ status[job_id] = "running" /\ status'[job_id] = "error"

\* C33: in every state a progress stream can read, a complete job has a
\* result and a job in error has an error message; the result is written
\* no later than the status complete and never on the error path.
C33_ResultBeforeComplete == []ResultWithStatus /\ [][ResultWrittenOnSuccess]_vars

\* One stream has read a complete job with its result while another has
\* read the other job in error with its message.
C33_Witness ==
    /\ status[1] = "complete" /\ status[2] = "error"
    /\ \E r, q \in Readers :
          /\ reader[r].job = 1 /\ reader[r].pc = "closed"
          /\ reader[r].seen = [status |-> "complete", result |-> "set", error |-> "null"]
          /\ reader[q].job = 2 /\ reader[q].pc = "closed"
          /\ reader[q].seen = [status |-> "error", result |-> "null", error |-> "set"]

\* The places <<group, position>> of the answers of a result.
AnswerPlaces(pairs) ==
    {<<g, k>> : g \in 1..Len(pairs), k \in 1..MaxComments} \cap
    {p \in (1..Len(pairs)) \X (1..MaxComments) : p[2] <= Len(pairs[p[1]].answers)}

\* C34: in a result every group has at least one answer and a question
\* that is a comment of the input; every answer is a comment of the input
\* by a target author whose parent reference is the comment reference of
\* the question of its group; and no comment is an answer at two places.
C34_GroupsWellFormed ==
    Extracted =>
        /\ \A g \in 1..Len(qa_pairs) :
              /\ Len(qa_pairs[g].answers) >= 1
              /\ qa_pairs[g].question \in Range(submission_comments)
              /\ \A k \in 1..Len(qa_pairs[g].answers) :
                    LET answer == qa_pairs[g].answers[k]
                    IN /\ answer \in Range(submission_comments)
                       /\ TargetAuthor(answer)
                       /\ answer.parent_id =
                             [prefix |-> "t1_", rest |-> qa_pairs[g].question.id]
        /\ \A p, q \in AnswerPlaces(qa_pairs) :
              p # q => qa_pairs[p[1]].answers[p[2]].id # qa_pairs[q[1]].answers[q[2]].id

\* Two groups, and the answer of one is the question of the other.
C34_Witness ==
    /\ Extracted /\ Len(qa_pairs) = 2
    /\ \E g, h \in 1..2 :
          /\ g # h
          /\ qa_pairs[g].question.id = qa_pairs[h].answers[1].id
          /\ ~TargetAuthor(qa_pairs[h].question)

\* C32: the service's correlator returns the groups, in the order, that the
\* archiver's correlator returns on the same Submission and names with
\* include_deleted = False: equal to a fresh such result, and equal to the
\* result the archiver gave when it was called that way.
C32_ServerMatchesCore ==
    (qa_pc = "served") =>
        /\ qa_pairs = ExtractQAPairs(submission_comments, answer_authors, FALSE)
        /\ (include_deleted = FALSE) => qa_pairs = qa_first

\* The service has answered with at least one group on a Submission where
\* a target author replies to a deleted or removed comment, and the
\* archiver called with include_deleted = True gave another result.
C32_Witness ==
    /\ qa_pc = "served" /\ include_deleted = TRUE
    /\ Len(qa_pairs) >= 1 /\ qa_first # qa_pairs
    /\ \E j, k \in 1..Len(submission_comments) :
          /\ TargetAuthor(submission_comments[k])
          /\ DeletedBody(submission_comments[j].body)
          /\ submission_comments[k].parent_id = [prefix |-> "t1_", rest |-> j]
=============================================================================
